---- MODULE Spec2Model ----
(***************************************************************************)
(* The control core of the drp_climate_master integration: the sensor      *)
(* maps kept by DevicesHub and HomeClimateMaster, the season estimate, the *)
(* ambient aggregate, and the VMC and radiant controllers of one control   *)
(* cycle (HomeClimateMaster.async_update -> DevicesHub.async_hvac_control).*)
(*                                                                         *)
(* Numbers are fixed point: temperatures, humidities, percentages and      *)
(* setpoints are integers in tenths (21.5 is 215); local time is seconds   *)
(* since midnight.  An entity state is the string Home Assistant reports   *)
(* ("on", "off", "unavailable", "22.5"); float() and int() are the lookup  *)
(* tables below and fail, as in Python, on any other string.               *)
(*                                                                         *)
(* An exception is a value: a handler returns the service calls it made    *)
(* before the exception and the exception's name in "raised".              *)
(*                                                                         *)
(* A cycle reads the clock four times (climate_core.py lines 811, 899,     *)
(* 1097 and 1226); the cycle is taken at one instant, so the four readings *)
(* are the one value "now".  A handler that needs an intermediate result   *)
(* more than once takes it as a parameter of a helper operator, so each    *)
(* call of the source is one call of the model.                            *)
(***************************************************************************)
EXTENDS Integers, Sequences, FiniteSets, TLC

VARIABLES
    sensor_map,                  \* DevicesHub._sensor_map
    climate_sensor_map,          \* HomeClimateMaster._sensor_map (zone sensors)
    attr_current,                \* HomeClimateMaster._attr_current_* and the two home-current map entries
    attr_hvac_mode,              \* HomeClimateMaster._attr_hvac_mode
    hass_states,                 \* hass.states for the zone valves and the zone sensors
    started,                     \* EVENT_HOMEASSISTANT_START has been delivered
    recorder,                    \* per valve, what enquiry_entity_in_state_last_minutes(valve, 'on', '120') returns
    forecast,                    \* what get_weather_temps() returns
    calendar_season,             \* the label get_season_by_date() yields for the date fixed at import
    vmc_controller_water_alarm,  \* DevicesHub._vmc_controller_water_alarm (the latch)
    confort_setpoint_power_on,   \* DevicesHub._confort_setpoint_power_on
    confort_setpoint_power_off,  \* DevicesHub._confort_setpoint_power_off
    runs,                        \* control cycles run since the last event, capped at MaxRuns
    ora_corrente,                \* datetime.now().time() as read by the last cycle
    vmc_calls,                   \* service calls of the last cycle's VMC controller, in order
    radiant_calls,               \* service calls of the last cycle's radiant controller, in order
    raised,                      \* the exception the last cycle ended with, or NoError
    arguments,                   \* the arguments of the last direct call of a function, or << >>
    returned                     \* what that call returned or raised, or << >>

vars == << sensor_map, climate_sensor_map, attr_current, attr_hvac_mode, hass_states,
           started, recorder, forecast, calendar_season, vmc_controller_water_alarm,
           confort_setpoint_power_on, confort_setpoint_power_off,
           runs, ora_corrente, vmc_calls, radiant_calls, raised, arguments, returned >>

(***************************************************************************)
(* Bounds of the model.                                                    *)
(***************************************************************************)
MaxRuns == 2

(***************************************************************************)
(* Constants of homeassistant.const and const.py.                          *)
(***************************************************************************)
STATE_ON == "on"
STATE_OFF == "off"
TURN_ON == "turn_on"
TURN_OFF == "turn_off"
WINTER == "winter"
SPRING == "spring"
SUMMER == "summer"
AUTUMN == "autumn"
HVAC_AUTO == "auto"

\* The iteration order of the CONFORT_ZONES dict.
SeasonOrder == << SUMMER, AUTUMN, WINTER, SPRING >>
Seasons == { SeasonOrder[i] : i \in 1..Len(SeasonOrder) }

CONFORT_ZONES ==
    [s \in Seasons |->
        CASE s = SUMMER -> [temp_min |-> 240, temp_max |-> 270, hum_min |-> 400,
                            hum_max |-> 550, delta_temp |-> 7, delta_hum |-> 16]
          [] s = AUTUMN -> [temp_min |-> 180, temp_max |-> 237, hum_min |-> 500,
                            hum_max |-> 700, delta_temp |-> 6, delta_hum |-> 15]
          [] s = WINTER -> [temp_min |-> 175, temp_max |-> 215, hum_min |-> 400,
                            hum_max |-> 600, delta_temp |-> 5, delta_hum |-> 10]
          [] s = SPRING -> [temp_min |-> 190, temp_max |-> 240, hum_min |-> 450,
                            hum_max |-> 650, delta_temp |-> 8, delta_hum |-> 14]]

(***************************************************************************)
(* The configuration DevicesHub.__init__ reads: entity ids and codes.      *)
(***************************************************************************)
power_supply_direct_id == "switch.supply_direct"
power_supply_adjustable_id == "switch.supply_adjustable"
power_supply_mixing_valve_id == "number.mixing_valve"
radiant_fm_power_id == "switch.radiant_fm_power"
radiant_device_power_id == "switch.radiant_power"
radiant_actuator_id == "number.radiant_mode"
radiant_device_heating_code == 10
radiant_boiler_temp_system_supply == "sensor.boiler_supply"
radiant_boiler_temp_system_return == "sensor.boiler_return"
vmc_power_entity_id == "switch.vmc_power"
season_actuator_id == "select.vmc_season"
vmc_season_winter == "Winter"
vmc_spare_setpoint_id == "number.vmc_spare_setpoint"
vmc_vent_recirculation_id == "switch.vmc_recirculation"
vmc_force_heating_id == "switch.vmc_force_heating"
vmc_t_setpoint_entity_id == "number.vmc_t_setpoint"
vmc_h_setpoint_entity_id == "number.vmc_h_setpoint"
vmc_t_ambient == "sensor.vmc_t_ambient"
vmc_t_water == "sensor.vmc_t_water"
vmc_high_water_temp == "binary_sensor.vmc_high_water_temp"
vmc_home_windows_state == "binary_sensor.home_windows"

\* The areas of the configuration: two indoor zones served by the radiant
\* plant and one outdoor area.
config_areas ==
    << [area |-> "Living", indoor |-> TRUE, radiant |-> TRUE, mq |-> 30,
        temperature |-> "sensor.living_t", humidity |-> "sensor.living_h",
        thermal_collector_valve_switch |-> "switch.living_valve"],
       [area |-> "Bedroom", indoor |-> TRUE, radiant |-> TRUE, mq |-> 20,
        temperature |-> "sensor.bedroom_t", humidity |-> "sensor.bedroom_h",
        thermal_collector_valve_switch |-> "switch.bedroom_valve"],
       [area |-> "Terrace", indoor |-> FALSE, radiant |-> FALSE, mq |-> 10,
        temperature |-> "sensor.terrace_t", humidity |-> "sensor.terrace_h",
        thermal_collector_valve_switch |-> "switch.terrace_valve"] >>

AreaSensors ==
    UNION { { config_areas[i].temperature, config_areas[i].humidity } : i \in 1..Len(config_areas) }

Valves == { config_areas[i].thermal_collector_valve_switch : i \in 1..Len(config_areas) }

\* Every entity DevicesHub.__init__ subscribes to and the controllers read.
HubEntities ==
    { power_supply_direct_id, power_supply_adjustable_id, power_supply_mixing_valve_id,
      radiant_fm_power_id, radiant_device_power_id, radiant_actuator_id,
      radiant_boiler_temp_system_supply, radiant_boiler_temp_system_return,
      vmc_power_entity_id, season_actuator_id, vmc_spare_setpoint_id,
      vmc_vent_recirculation_id, vmc_force_heating_id, vmc_t_setpoint_entity_id,
      vmc_h_setpoint_entity_id, vmc_t_ambient, vmc_t_water, vmc_high_water_temp,
      vmc_home_windows_state } \cup AreaSensors

(***************************************************************************)
(* Map entries.  NoKey: the key is not in the dict.  None: the key holds   *)
(* None (new_state of a removed entity, or hass.states.get of an unknown   *)
(* one).  Anything else is the .state string of the State object held.     *)
(***************************************************************************)
NoKey == "<no key>"
None == "<None>"
NoError == ""
UNAVAILABLE == "unavailable"

\* dict.get(e) is truthy: the key is there and holds a State object.
Known(m, e) == m[e] # NoKey /\ m[e] # None

\* dict.get(e) and dict.get(e).state == s
StateIs(m, e, s) == Known(m, e) /\ m[e] = s

(***************************************************************************)
(* float() and int() on the state strings the model uses.                  *)
(***************************************************************************)
FloatLiterals ==
    { <<"1", 10>>, <<"5", 50>>, <<"1.0", 10>>, <<"2.0", 20>>,
      <<"15.0", 150>>, <<"18.0", 180>>, <<"18.5", 185>>, <<"19.0", 190>>, <<"20.0", 200>>,
      <<"22.5", 225>>, <<"24.0", 240>>, <<"25.0", 250>>, <<"25.5", 255>>,
      <<"26.0", 260>>, <<"27.0", 270>>,
      <<"28.0", 280>>, <<"50.0", 500>>, <<"60.0", 600>>, <<"61.0", 610>>,
      <<"70.0", 700>>, <<"100.0", 1000>> }

IntLiterals == { <<"1", 1>>, <<"5", 5>> }

is_number(string) == \E p \in FloatLiterals : p[1] = string

float(string) == (CHOOSE p \in FloatLiterals : p[1] = string)[2]

is_int(string) == \E p \in IntLiterals : p[1] = string

int(string) == (CHOOSE p \in IntLiterals : p[1] = string)[2]

(***************************************************************************)
(* Arithmetic helpers.                                                     *)
(***************************************************************************)
Abs(x) == IF x < 0 THEN 0 - x ELSE x

\* Python's round(): n/d (d > 0) to the nearest integer, ties to even.
round(n, d) ==
    LET q == n \div d
        r == n - q * d
    IN  IF 2 * r < d THEN q
        ELSE IF 2 * r > d THEN q + 1
        ELSE IF q % 2 = 0 THEN q ELSE q + 1

RECURSIVE SumSeq(_)
SumSeq(s) == IF s = << >> THEN 0 ELSE Head(s) + SumSeq(Tail(s))

RECURSIVE SumProducts(_, _)
SumProducts(a, b) ==
    IF a = << >> THEN 0 ELSE Head(a) * Head(b) + SumProducts(Tail(a), Tail(b))

(***************************************************************************)
(* Service calls (the ActuatorCommand of the design).                      *)
(***************************************************************************)
\* _async_switch_turn(entity_id, state)
switch_turn(entity_id, state) ==
    [service |-> state, entity_id |-> entity_id, value |-> 0, option |-> ""]

\* _async_number_set_value(entity_id, value)
number_set_value(entity_id, value) ==
    [service |-> "set_value", entity_id |-> entity_id, value |-> value, option |-> ""]

\* _async_input_select_set_value(entity_id, value)
input_select_set_value(entity_id, value) ==
    [service |-> "select_option", entity_id |-> entity_id, value |-> 0, option |-> value]

When(cond, call) == IF cond THEN << call >> ELSE << >>

(***************************************************************************)
(* helpers.weighted_average(valori, pesi): the mean as the fraction        *)
(* num/den, or the exception raised.                                       *)
(***************************************************************************)
\* The plain mean: the weights are checked but not applied.
weighted_average_unweighted(valori, pesi) ==
    IF Len(valori) # Len(pesi)
    THEN [raised |-> "ValueError", num |-> 0, den |-> 1]
    ELSE IF SumSeq(pesi) = 0
    THEN [raised |-> "ZeroDivisionError", num |-> 0, den |-> 1]
    ELSE [raised |-> NoError, num |-> SumSeq(valori), den |-> Len(valori)]

weighted_average(valori, pesi) ==
    IF Len(valori) # Len(pesi)
    THEN [raised |-> "ValueError", num |-> 0, den |-> 1]
    ELSE IF SumSeq(pesi) = 0
    THEN [raised |-> "ZeroDivisionError", num |-> 0, den |-> 1]
    ELSE [raised |-> NoError, num |-> SumProducts(valori, pesi), den |-> SumSeq(pesi)]

(***************************************************************************)
(* DevicesHub.calculate_heat_index, in tenths, as a fraction.  With        *)
(* t = T*9/5 + 32 the source computes                                      *)
(*   hi = 0.5*(t + 61 + (t - 68)*1.2 + RH*0.094) = 1.98*T + 24.9 + 0.047*RH*)
(* and returns (hi - 32)*5/9 = (1980*T - 7100 + 47*RH)/1800 degrees, which *)
(* for T and RH given in tenths is (1980*T10 - 71000 + 47*RH10)/1800       *)
(* tenths.                                                                 *)
(***************************************************************************)
calculate_heat_index(temperature, humidity) ==
    [num |-> 1980 * temperature - 71000 + 47 * humidity, den |-> 1800]

(***************************************************************************)
(* DevicesHub.calculate_dew_point(temperature, humidity), in tenths.       *)
(* psychrolib.GetTDewPointFromRelHum is given the relative humidity as     *)
(* humidity / 100 and raises ValueError when that is outside [0, 1] or     *)
(* when the vapour pressure is outside the range of its equations, which   *)
(* is the case at 0 %.  DewPoints holds its result to the nearest tenth    *)
(* for the dry-bulb temperatures 0, 5, ... 30 degrees (rows) and the       *)
(* relative humidities 10, 20, ... 100 % (columns).                        *)
(***************************************************************************)
DewPoints ==
    << << -253, -182, -139, -107, -82, -61, -43, -27, -13, 0 >>,
       << -217, -144, -99, -66, -40, -19, 0, 18, 35, 50 >>,
       << -182, -106, -60, -26, 1, 26, 48, 67, 84, 100 >>,
       << -147, -69, -21, 15, 47, 73, 96, 116, 134, 150 >>,
       << -112, -32, 19, 60, 93, 120, 144, 164, 183, 200 >>,
       << -77, 5, 62, 105, 139, 167, 191, 213, 232, 250 >>,
       << -44, 46, 105, 149, 184, 214, 239, 262, 282, 300 >> >>

GetTDewPointFromRelHum(TDryBulb, RelHum) ==
    IF RelHum <= 0 \/ RelHum > 1000
    THEN [raised |-> "ValueError", value |-> 0]
    ELSE [raised |-> NoError, value |-> DewPoints[TDryBulb \div 50 + 1][RelHum \div 100]]

\* dp is 0 before the try block and is returned as it stands: the library's
\* ValueError is logged, nothing else.  The result is never None.
calculate_dew_point(temperature, humidity) ==
    [raised |-> NoError,
     value |-> IF GetTDewPointFromRelHum(temperature, humidity).raised = "ValueError"
               THEN 0
               ELSE GetTDewPointFromRelHum(temperature, humidity).value]

\* DevicesHub.dew_point_perception_text: the bucket of a dew point, or None
\* for None.  dewpoint is [none, value].
dew_point_perception(dewpoint) ==
    IF dewpoint.none THEN None
    ELSE IF dewpoint.value < 100 THEN "DRY"
    ELSE IF dewpoint.value < 130 THEN "VERY_COMFORTABLE"
    ELSE IF dewpoint.value < 160 THEN "COMFORTABLE"
    ELSE IF dewpoint.value < 180 THEN "OK_BUT_HUMID"
    ELSE IF dewpoint.value < 210 THEN "SOMEWHAT_UNCOMFORTABLE"
    ELSE IF dewpoint.value < 240 THEN "QUITE_UNCOMFORTABLE"
    ELSE IF dewpoint.value < 260 THEN "EXTREMELY_UNCOMFORTABLE"
    ELSE "SEVERELY_HIGH"

\* The dew-point entry of the aggregator's reading (line 636) and what the
\* climate entity shows for it: the value async_update stores (climate.py
\* line 311) and the perception its attributes compute from it (389-390).
\* A reading is there iff calculate_dew_point did not raise.
ambient_dew_point(dew_point) ==
    [raised |-> dew_point.raised,
     none |-> dew_point.raised # NoError,
     t_avg_dew_point |-> dew_point.value,
     perception |-> dew_point_perception([none |-> dew_point.raised # NoError,
                                          value |-> dew_point.value])]

(***************************************************************************)
(* DevicesHub.async_ambient_temp_hum(areas, sensor_map).  ambient_collect  *)
(* is its loop over the areas; the result is a reading, None ("none") or   *)
(* the exception that ended it.  The dew point of the reading is           *)
(* ambient_dew_point above: calculate_dew_point does not raise and no      *)
(* controller reads the entry, so the reading here goes without it.        *)
(***************************************************************************)
RECURSIVE ambient_collect(_, _, _, _)
ambient_collect(areas, sm, i, acc) ==
    IF i > Len(areas) \/ acc.raised # NoError THEN acc
    ELSE LET area == areas[i]
             t_entity_id == area.temperature
             h_entity_id == area.humidity
             counted == [acc EXCEPT !.area_count = @ + 1]
         IN  IF ~(area.indoor /\ area.radiant)
             THEN ambient_collect(areas, sm, i + 1, acc)
             ELSE IF sm[t_entity_id] # NoKey /\ sm[h_entity_id] # NoKey
             THEN IF sm[t_entity_id] = None
                  THEN [counted EXCEPT !.raised = "AttributeError"]
                  ELSE IF ~is_number(sm[t_entity_id])
                  THEN [counted EXCEPT !.raised = "ValueError"]
                  ELSE IF sm[h_entity_id] = None
                  THEN [counted EXCEPT !.raised = "AttributeError"]
                  ELSE IF ~is_number(sm[h_entity_id])
                  THEN [counted EXCEPT !.raised = "ValueError"]
                  ELSE ambient_collect(areas, sm, i + 1,
                          [counted EXCEPT !.temps = Append(@, float(sm[t_entity_id])),
                                          !.hums = Append(@, float(sm[h_entity_id])),
                                          !.weights = Append(@, area.mq)])
             ELSE ambient_collect(areas, sm, i + 1,
                          [counted EXCEPT !.area_missing = @ + 1])

\* The tolerance policy of line 633: round(area_count / 3, 0) >= area_missing.
ambient_tolerated(area_count, area_missing) == round(area_count, 3) >= area_missing

NoReading == [raised |-> NoError, none |-> TRUE, temp |-> 0, hum |-> 0, t_avg_h_index |-> 0]

\* round(x, 1) of a value held in tenths as the fraction num/den.
round_tenths(x) == round(x.num, x.den)

\* The reading built from the two rounded averages (line 640).
ambient_reading(t_avg, h_avg) ==
    [raised |-> NoError, none |-> FALSE, temp |-> t_avg, hum |-> h_avg,
     t_avg_h_index |-> round_tenths(calculate_heat_index(t_avg, h_avg))]

\* Lines 634-640, given what the two weighted_average calls gave.
ambient_averages(t, h) ==
    IF t.raised # NoError THEN [NoReading EXCEPT !.raised = t.raised]
    ELSE ambient_reading(round_tenths(t), round_tenths(h))

\* Lines 633-643, given what the loop collected.
ambient_result(acc) ==
    IF acc.raised # NoError THEN [NoReading EXCEPT !.raised = acc.raised]
    ELSE IF ~ambient_tolerated(acc.area_count, acc.area_missing) THEN NoReading
    ELSE ambient_averages(weighted_average(acc.temps, acc.weights),
                          weighted_average(acc.hums, acc.weights))

async_ambient_temp_hum(areas, sm) ==
    ambient_result(ambient_collect(areas, sm, 1,
                       [temps |-> << >>, hums |-> << >>, weights |-> << >>,
                        area_count |-> 0, area_missing |-> 0, raised |-> NoError]))

(***************************************************************************)
(* DevicesHub.get_season_from_weather, given the label get_season_by_date  *)
(* returned and the forecast get_weather_temps returned (the empty         *)
(* sequence stands for None).  Scores are exact fractions:                 *)
(*   weight = 1 - 0.1*i = (10 - i)/10,                                     *)
(*   1 + min_deviation + max_deviation = (20 + a)/20 with                  *)
(*   a = |2*min - (lo + hi)| + |2*max - (lo + hi)| in tenths,              *)
(* so the day's score is 2*(10 - i)/(20 + a).                              *)
(***************************************************************************)
RECURSIVE GCD(_, _)
GCD(a, b) == IF b = 0 THEN a ELSE GCD(b, a % b)

FracAdd(x, y) ==
    LET n == x.num * y.den + y.num * x.den
        d == x.den * y.den
        g == GCD(n, d)
    IN  IF n = 0 THEN [num |-> 0, den |-> 1] ELSE [num |-> n \div g, den |-> d \div g]

FracLess(x, y) == x.num * y.den < y.num * x.den

day_score(i, temp_data, conditions) ==
    LET confort_temp_min == conditions.temp_min - conditions.delta_temp
        confort_temp_max == conditions.temp_max + conditions.delta_temp
        confort_temp_sum == confort_temp_min + confort_temp_max
        min_deviation == Abs(2 * temp_data.min - confort_temp_sum)
        max_deviation == Abs(2 * temp_data.max - confort_temp_sum)
        n == 2 * (10 - i)
        d == 20 + min_deviation + max_deviation
        g == GCD(n, d)
    IN  IF n = 0 THEN [num |-> 0, den |-> 1] ELSE [num |-> n \div g, den |-> d \div g]

RECURSIVE season_score(_, _, _)
season_score(temperatures, season, k) ==
    IF k = 0 THEN [num |-> 0, den |-> 1]
    ELSE FracAdd(season_score(temperatures, season, k - 1),
                 day_score(k - 1, temperatures[k], CONFORT_ZONES[season]))

\* The selection with the comparison turned round: min instead of max.
RECURSIVE selected_season_lowest(_, _, _)
selected_season_lowest(temperatures, k, best) ==
    IF k > Len(SeasonOrder) THEN best
    ELSE IF FracLess(season_score(temperatures, SeasonOrder[k], Len(temperatures)),
                     season_score(temperatures, best, Len(temperatures)))
    THEN selected_season_lowest(temperatures, k + 1, SeasonOrder[k])
    ELSE selected_season_lowest(temperatures, k + 1, best)

\* max(season_scores, key=season_scores.get): the first season, in dict
\* order, with the highest score.
RECURSIVE selected_season(_, _, _)
selected_season(temperatures, k, best) ==
    IF k > Len(SeasonOrder) THEN best
    ELSE IF FracLess(season_score(temperatures, best, Len(temperatures)),
                     season_score(temperatures, SeasonOrder[k], Len(temperatures)))
    THEN selected_season(temperatures, k + 1, SeasonOrder[k])
    ELSE selected_season(temperatures, k + 1, best)

\* The label with the overridden and weather_anomaly keys added (594-595).
season_with_weather(current_label, selected) ==
    [label |-> current_label, overridden |-> selected,
     weather_anomaly |-> IF selected # current_label THEN "True" ELSE "False"]

\* Without a forecast the copy of the calendar's dict is returned as it is:
\* the two keys are not set.
get_season_from_weather(current_label, temperatures) ==
    IF temperatures = << >>
    THEN [label |-> current_label, overridden |-> NoKey, weather_anomaly |-> NoKey]
    ELSE season_with_weather(current_label, selected_season(temperatures, 2, SeasonOrder[1]))

\* DevicesHub.get_confort_zone: the key of the zone in CONFORT_ZONES, or None.
get_confort_zone(season) ==
    IF season.overridden \in Seasons THEN season.overridden ELSE None

(***************************************************************************)
(* DevicesHub.get_season_by_date(data).  A date is [year, month, day];     *)
(* date.replace is the date with a field changed, or ValueError when that  *)
(* day does not exist.  The result is the season found (label, days,       *)
(* passed, remaining), None ("none"), or the exception raised.             *)
(***************************************************************************)
date(year, month, day) == [year |-> year, month |-> month, day |-> day]

\* helpers.is_leap_year
is_leap_year(year) == (year % 4 = 0) /\ (year % 100 # 0 \/ year % 400 = 0)

days_in_month(year, month) ==
    IF month = 2 THEN (IF is_leap_year(year) THEN 29 ELSE 28)
    ELSE IF month \in {4, 6, 9, 11} THEN 30 ELSE 31

\* date.replace(year=..) and date.replace(day=..)
date_replace(d, year, day) ==
    IF day <= days_in_month(year, d.month)
    THEN [raised |-> NoError, value |-> date(year, d.month, day)]
    ELSE [raised |-> "ValueError", value |-> d]

\* a < b on dates
date_before(a, b) ==
    \/ a.year < b.year
    \/ a.year = b.year /\ a.month < b.month
    \/ a.year = b.year /\ a.month = b.month /\ a.day < b.day

RECURSIVE days_before_month(_, _)
days_before_month(year, month) ==
    IF month = 1 THEN 0
    ELSE days_before_month(year, month - 1) + days_in_month(year, month - 1)

\* date.toordinal(): the differences of lines 472-474 are differences of it.
toordinal(d) ==
    365 * (d.year - 1) + ((d.year - 1) \div 4) - ((d.year - 1) \div 100)
        + ((d.year - 1) \div 400) + days_before_month(d.year, d.month) + d.day

\* const.SEASONS_BY_DATE, in the order of the dict.
SEASONS_BY_DATE ==
    << [label |-> WINTER, start |-> date(2023, 12, 1), end |-> date(2024, 2, 29)],
       [label |-> SPRING, start |-> date(2024, 3, 1), end |-> date(2024, 5, 31)],
       [label |-> SUMMER, start |-> date(2024, 6, 1), end |-> date(2024, 8, 31)],
       [label |-> AUTUMN, start |-> date(2024, 9, 1), end |-> date(2023, 11, 30)] >>

NoInterval == [raised |-> NoError, contains |-> FALSE, days |-> 0, passed |-> 0, remaining |-> 0]

\* Lines 471-474: the test of the date against the interval.
interval_contains(start, end, today) ==
    IF end.raised # NoError THEN [NoInterval EXCEPT !.raised = end.raised]
    ELSE IF date_before(today, start) \/ date_before(end.value, today) THEN NoInterval
    ELSE [raised |-> NoError, contains |-> TRUE,
          days |-> toordinal(end.value) - toordinal(start) + 1,
          passed |-> toordinal(today) - toordinal(start),
          remaining |-> toordinal(end.value) - toordinal(today)]

\* Lines 465-466: an end before the start goes to the following year.
interval_rolled(start, end, today) ==
    IF end.raised # NoError THEN [NoInterval EXCEPT !.raised = end.raised]
    ELSE interval_contains(start,
             IF date_before(end.value, start)
             THEN date_replace(end.value, today.year + 1, end.value.day)
             ELSE end,
             today)

\* Lines 462-463: an end in February gets day 29 when the next year is leap.
interval_adjusted(start, end, today) ==
    IF start.raised # NoError THEN [NoInterval EXCEPT !.raised = start.raised]
    ELSE IF end.raised # NoError THEN [NoInterval EXCEPT !.raised = end.raised]
    ELSE interval_rolled(start.value,
             IF is_leap_year(today.year + 1) /\ end.value.month = 2
             THEN date_replace(end.value, end.value.year, 29)
             ELSE end,
             today)

\* One pass of the loop body (lines 458-474) for the k-th interval.
season_interval(k, today) ==
    interval_adjusted(
        date_replace(SEASONS_BY_DATE[k].start, today.year, SEASONS_BY_DATE[k].start.day),
        date_replace(SEASONS_BY_DATE[k].end, today.year, SEASONS_BY_DATE[k].end.day),
        today)

NoSeason ==
    [raised |-> NoError, none |-> TRUE, label |-> None, days |-> 0, passed |-> 0, remaining |-> 0]

RECURSIVE season_loop(_, _)

\* What the loop does with the k-th interval's outcome.
season_found(k, today, interval) ==
    IF interval.raised # NoError THEN [NoSeason EXCEPT !.raised = interval.raised]
    ELSE IF interval.contains
    THEN [raised |-> NoError, none |-> FALSE, label |-> SEASONS_BY_DATE[k].label,
          days |-> interval.days, passed |-> interval.passed,
          remaining |-> interval.remaining]
    ELSE season_loop(k + 1, today)

season_loop(k, today) ==
    IF k > Len(SEASONS_BY_DATE) THEN NoSeason
    ELSE season_found(k, today, season_interval(k, today))

get_season_by_date(data) == season_loop(1, data)

(***************************************************************************)
(* The VMC controller.  A handler returns the service calls it made, in    *)
(* order, the exception that ended it (or NoError) and the value it leaves *)
(* in _vmc_controller_water_alarm.                                         *)
(***************************************************************************)
\* datetime.time(hour, minute) as seconds since midnight.
time(hour, minute) == hour * 3600 + minute * 60

\* A windows test that takes any reported state for "closed".
windows_sensor_known(m) == Known(m, vmc_home_windows_state)

\* is_home_windows_closed of _async_vmc_mode_auto; _async_radiant_mode_auto
\* tests the same expression.
is_home_windows_closed(m) == StateIs(m, vmc_home_windows_state, "on")

\* The interlock condition with a strict bound on the blending valve.
vmc_interlock_below_60(m) ==
    /\ StateIs(m, power_supply_adjustable_id, STATE_ON)
    /\ Known(m, power_supply_mixing_valve_id)
    /\ is_number(m[power_supply_mixing_valve_id])
    /\ float(m[power_supply_mixing_valve_id]) < 600

\* The condition of the interlock branch of the winter handler.
vmc_interlock(m) ==
    /\ StateIs(m, power_supply_adjustable_id, STATE_ON)
    /\ Known(m, power_supply_mixing_valve_id)
    /\ is_number(m[power_supply_mixing_valve_id])
    /\ float(m[power_supply_mixing_valve_id]) <= 600

\* A reset of the latch that does not look at the temperatures.
water_alarm_cleared_always(m, alarm) == alarm

\* The latch is reset when the water is no warmer than the VMC ambient.
water_alarm_cleared(m, alarm) ==
    alarm /\ float(m[vmc_t_water]) <= float(m[vmc_t_ambient])

\* A guard of TurnOn(direct supply) that does not read the alarm sensor.
direct_supply_latch_only(m, alarm) == ~alarm

\* The guard of TurnOn(direct supply), on the latch as the reset left it.
direct_supply_turn_on_allowed(m, alarm) ==
    ~alarm /\ StateIs(m, vmc_high_water_temp, STATE_OFF)

\* The direct-supply block with the guard of TurnOn evaluated on the latch
\* as it was before the reset.
vmc_direct_supply_stale_latch(m, alarm) ==
    IF /\ Known(m, vmc_t_ambient) /\ is_number(m[vmc_t_ambient])
       /\ StateIs(m, power_supply_direct_id, STATE_OFF)
       /\ Known(m, vmc_t_water) /\ is_number(m[vmc_t_water])
    THEN [calls |-> When(~alarm /\ StateIs(m, vmc_high_water_temp, STATE_OFF),
                         switch_turn(power_supply_direct_id, TURN_ON)),
          alarm |-> IF alarm /\ float(m[vmc_t_water]) <= float(m[vmc_t_ambient])
                    THEN FALSE ELSE alarm]
    ELSE IF /\ StateIs(m, power_supply_direct_id, STATE_ON)
            /\ StateIs(m, vmc_high_water_temp, STATE_ON)
    THEN [calls |-> << switch_turn(power_supply_direct_id, TURN_OFF) >>, alarm |-> TRUE]
    ELSE [calls |-> << >>, alarm |-> alarm]

\* The direct-supply block of the interlock branch.
vmc_direct_supply(m, alarm) ==
    IF /\ Known(m, vmc_t_ambient) /\ is_number(m[vmc_t_ambient])
       /\ StateIs(m, power_supply_direct_id, STATE_OFF)
       /\ Known(m, vmc_t_water) /\ is_number(m[vmc_t_water])
    THEN LET alarm1 == IF water_alarm_cleared(m, alarm) THEN FALSE ELSE alarm
         IN  [calls |-> When(direct_supply_turn_on_allowed(m, alarm1),
                             switch_turn(power_supply_direct_id, TURN_ON)),
              alarm |-> alarm1]
    ELSE IF /\ StateIs(m, power_supply_direct_id, STATE_ON)
            /\ StateIs(m, vmc_high_water_temp, STATE_ON)
    THEN [calls |-> << switch_turn(power_supply_direct_id, TURN_OFF) >>, alarm |-> TRUE]
    ELSE [calls |-> << >>, alarm |-> alarm]

\* The interlock branch: it ends the handler.
vmc_interlock_branch(m, alarm, is_device_power_on) ==
    IF ~is_device_power_on
    THEN [calls |-> << switch_turn(vmc_power_entity_id, TURN_ON) >>,
          raised |-> NoError, alarm |-> alarm]
    ELSE LET direct == vmc_direct_supply(m, alarm)
         IN  [calls |-> When(Known(m, season_actuator_id) /\ m[season_actuator_id] # "Off",
                             input_select_set_value(season_actuator_id, "Off"))
                        \o When(StateIs(m, vmc_force_heating_id, STATE_OFF),
                                switch_turn(vmc_force_heating_id, TURN_ON))
                        \o direct.calls,
              raised |-> NoError, alarm |-> direct.alarm]

\* The retract branch (elif is_device_power_on).
vmc_retract(m, is_device_power_on) ==
    IF is_device_power_on
    THEN When(StateIs(m, vmc_force_heating_id, STATE_ON),
              switch_turn(vmc_force_heating_id, TURN_OFF))
         \o When(StateIs(m, power_supply_direct_id, STATE_ON),
                 switch_turn(power_supply_direct_id, TURN_OFF))
    ELSE << >>

\* The body of a time window with the VMC powered: mode, spare setpoint,
\* recirculation.  int() of the spare setpoint's state raises after the mode
\* command went out; the value written is in tenths like every other.
vmc_window_program(m, mode, spare, recirculation_from, recirculation_service) ==
    LET mode_calls == When(Known(m, season_actuator_id) /\ m[season_actuator_id] # mode,
                           input_select_set_value(season_actuator_id, mode))
    IN  IF Known(m, vmc_spare_setpoint_id) /\ ~is_int(m[vmc_spare_setpoint_id])
        THEN [calls |-> mode_calls, raised |-> "ValueError"]
        ELSE [calls |-> mode_calls
                        \o When(Known(m, vmc_spare_setpoint_id)
                                    /\ int(m[vmc_spare_setpoint_id]) # spare,
                                number_set_value(vmc_spare_setpoint_id, 10 * spare))
                        \o When(StateIs(m, vmc_vent_recirculation_id, recirculation_from),
                                switch_turn(vmc_vent_recirculation_id, recirculation_service)),
              raised |-> NoError]

\* The time-of-day schedule of the winter handler.
vmc_schedule(m, is_device_power_on, now) ==
    LET power_on == [calls |-> << switch_turn(vmc_power_entity_id, TURN_ON) >>,
                     raised |-> NoError]
    IN  IF time(2, 0) <= now /\ now < time(9, 0)
        THEN IF ~is_device_power_on THEN power_on
             ELSE vmc_window_program(m, "Off", 1, "off", TURN_ON)
        ELSE IF time(12, 0) <= now /\ now < time(15, 0)
        THEN IF ~is_device_power_on THEN power_on
             ELSE vmc_window_program(m, vmc_season_winter, 5, "on", TURN_OFF)
        ELSE IF is_device_power_on
        THEN [calls |-> When(StateIs(m, vmc_vent_recirculation_id, "on"),
                             switch_turn(vmc_vent_recirculation_id, TURN_OFF))
                        \o << switch_turn(vmc_power_entity_id, TURN_OFF) >>,
              raised |-> NoError]
        ELSE [calls |-> << >>, raised |-> NoError]

\* The handler past the interlock test: the retract branch, then the schedule.
vmc_retract_then(m, alarm, is_device_power_on, schedule) ==
    [calls |-> vmc_retract(m, is_device_power_on) \o schedule.calls,
     raised |-> schedule.raised, alarm |-> alarm]

async_vmc_mode_auto_season_winter(m, alarm, is_device_power_on, now) ==
    IF vmc_interlock(m)
    THEN vmc_interlock_branch(m, alarm, is_device_power_on)
    ELSE vmc_retract_then(m, alarm, is_device_power_on,
                          vmc_schedule(m, is_device_power_on, now))

\* The two setpoint writes of _async_vmc_mode_auto (winter, VMC powered).
vmc_setpoints(m, confort_zone, set_point_temp) ==
    LET set_point_hum == CONFORT_ZONES[confort_zone].hum_max
                            + CONFORT_ZONES[confort_zone].delta_hum
    IN  When(/\ Known(m, vmc_t_setpoint_entity_id)
             /\ is_number(m[vmc_t_setpoint_entity_id])
             /\ float(m[vmc_t_setpoint_entity_id]) # set_point_temp,
             number_set_value(vmc_t_setpoint_entity_id, set_point_temp))
        \o When(/\ Known(m, vmc_h_setpoint_entity_id)
                /\ is_number(m[vmc_h_setpoint_entity_id])
                /\ float(m[vmc_h_setpoint_entity_id]) # set_point_hum,
                number_set_value(vmc_h_setpoint_entity_id, set_point_hum))

\* The season dispatch of _async_vmc_mode_auto (lines 951-992): the spring,
\* summer and autumn handlers only log.
vmc_season_dispatch(m, alarm, season_name, confort_zone, set_point_temp, is_device_power_on, now) ==
    IF season_name # WINTER
    THEN [calls |-> << >>, raised |-> NoError, alarm |-> alarm]
    ELSE [async_vmc_mode_auto_season_winter(m, alarm, is_device_power_on, now)
             EXCEPT !.calls = (IF is_device_power_on
                               THEN vmc_setpoints(m, confort_zone, set_point_temp)
                               ELSE << >>) \o @]

\* _async_vmc_mode_auto past the windows test, given what the aggregator gave.
vmc_with_reading(m, alarm, season_name, confort_zone, set_point_temp, now, home_current_temp_hum) ==
    IF home_current_temp_hum.raised # NoError
    THEN [calls |-> << >>, raised |-> home_current_temp_hum.raised, alarm |-> alarm]
    ELSE IF home_current_temp_hum.none
    THEN [calls |-> << >>, raised |-> "AttributeError", alarm |-> alarm]
    ELSE vmc_season_dispatch(m, alarm, season_name, confort_zone, set_point_temp,
                             StateIs(m, vmc_power_entity_id, STATE_ON), now)

\* _async_vmc_mode_auto.  m is the hub's map, sm the map the climate entity
\* passed in.
async_vmc_mode_auto(m, sm, alarm, season_name, confort_zone, set_point_temp, now) ==
    IF ~is_home_windows_closed(m)
    THEN [calls |-> << >>, raised |-> NoError, alarm |-> alarm]
    ELSE vmc_with_reading(m, alarm, season_name, confort_zone, set_point_temp, now,
                          async_ambient_temp_hum(config_areas, sm))

(***************************************************************************)
(* The radiant controller.  hs is hass.states for the zone valves, rec     *)
(* what the recorder query answers for each valve: [ok, count], ok FALSE   *)
(* when sqlite raises.                                                     *)
(***************************************************************************)
qualifying(area) == area.indoor /\ area.radiant

\* A zone rule that opens a valve not seen ON for 120 minutes whatever the
\* room temperature.
collector_valve_calls_idle_first(actuator_entity_id, is_actuator_on, room_temp, actuator_last_on, power_on, power_off) ==
    IF room_temp <= power_on \/ actuator_last_on = 0
    THEN When(~is_actuator_on, switch_turn(actuator_entity_id, TURN_ON))
    ELSE IF room_temp > power_off
    THEN When(is_actuator_on, switch_turn(actuator_entity_id, TURN_OFF))
    ELSE << >>

\* The zone rule of the distributor for one valve.
collector_valve_calls(actuator_entity_id, is_actuator_on, room_temp, actuator_last_on, power_on, power_off) ==
    IF room_temp > power_off
    THEN When(is_actuator_on, switch_turn(actuator_entity_id, TURN_OFF))
    ELSE IF room_temp <= power_on \/ actuator_last_on = 0
    THEN When(~is_actuator_on, switch_turn(actuator_entity_id, TURN_ON))
    ELSE << >>

\* The loop of _async_radiant_thermal_collector_mode_auto over the areas.
RECURSIVE collector_loop(_, _, _, _, _, _, _)
collector_loop(m, hs, rec, power_on, power_off, i, acc) ==
    IF i > Len(config_areas) \/ acc.raised # NoError THEN acc
    ELSE LET area == config_areas[i]
             t_entity_id == area.temperature
             h_entity_id == area.humidity
             actuator_entity_id == area.thermal_collector_valve_switch
             is_actuator_on == hs[actuator_entity_id] = STATE_ON
             counted == [acc EXCEPT !.total_mq = @ + area.mq]
             next(a) == collector_loop(m, hs, rec, power_on,
                                       power_off, i + 1, a)
         IN  IF ~qualifying(area) THEN next(acc)
             ELSE IF ~rec[actuator_entity_id].ok
             THEN [counted EXCEPT !.raised = "OperationalError"]
             ELSE IF ~(m[t_entity_id] # NoKey /\ m[h_entity_id] # NoKey
                        /\ hs[actuator_entity_id] # None)
             THEN next(counted)
             ELSE IF m[t_entity_id] = None
             THEN [counted EXCEPT !.raised = "AttributeError"]
             ELSE IF ~is_number(m[t_entity_id])
             THEN [counted EXCEPT !.raised = "ValueError"]
             ELSE IF m[h_entity_id] = None
             THEN [counted EXCEPT !.raised = "AttributeError"]
             ELSE IF ~is_number(m[h_entity_id])
             THEN [counted EXCEPT !.raised = "ValueError"]
             ELSE next([counted EXCEPT
                          !.opened_mq = @ + (IF is_actuator_on THEN area.mq ELSE 0),
                          !.calls = @ \o collector_valve_calls(actuator_entity_id,
                                            is_actuator_on, float(m[t_entity_id]),
                                            rec[actuator_entity_id].count,
                                            power_on,
                                            power_off)])

\* max(50, round((1 - (total_mq - opened_mq) / total_mq) * 100, 0)), in
\* tenths of a percent; total_mq is padded by 4 unless every zone is open.
adjust_valve_percent(total_mq, opened_mq) ==
    LET padded == IF total_mq # opened_mq THEN total_mq + 4 ELSE total_mq
        percent == round(100 * opened_mq, padded)
    IN  10 * (IF percent > 50 THEN percent ELSE 50)

\* What the distributor returns, given what its loop collected (785-794).
collector_result(acc) ==
    IF acc.raised # NoError
    THEN [calls |-> acc.calls, raised |-> acc.raised, adjust_valve_percent |-> 0]
    ELSE IF acc.total_mq = 0
    THEN [calls |-> acc.calls, raised |-> "ZeroDivisionError", adjust_valve_percent |-> 0]
    ELSE [calls |-> acc.calls, raised |-> NoError,
          adjust_valve_percent |-> adjust_valve_percent(acc.total_mq, acc.opened_mq)]

async_radiant_thermal_collector_mode_auto(m, hs, rec, power_on, power_off) ==
    collector_result(collector_loop(m, hs, rec, power_on, power_off, 1,
                         [calls |-> << >>, total_mq |-> 0, opened_mq |-> 0,
                          raised |-> NoError]))

\* The valve loop of the power-down branch: after the first TurnOff the log
\* line reads self.actuator_entity_id, which DevicesHub does not have.
RECURSIVE power_down_valves(_, _)
power_down_valves(hs, i) ==
    IF i > Len(config_areas) THEN [calls |-> << >>, raised |-> NoError]
    ELSE IF qualifying(config_areas[i])
            /\ hs[config_areas[i].thermal_collector_valve_switch] = STATE_ON
    THEN [calls |-> << switch_turn(config_areas[i].thermal_collector_valve_switch, TURN_OFF) >>,
          raised |-> "AttributeError"]
    ELSE power_down_valves(hs, i + 1)

\* The valve loop of the device-off branch.
RECURSIVE device_off_valves(_, _)
device_off_valves(hs, i) ==
    IF i > Len(config_areas) THEN << >>
    ELSE When(qualifying(config_areas[i])
                 /\ hs[config_areas[i].thermal_collector_valve_switch] = STATE_ON,
              switch_turn(config_areas[i].thermal_collector_valve_switch, TURN_OFF))
         \o device_off_valves(hs, i + 1)

\* The two switches of the power-down branch, then its valve loop.
power_down_result(m, valves) ==
    [calls |-> When(StateIs(m, power_supply_adjustable_id, STATE_ON),
                    switch_turn(power_supply_adjustable_id, TURN_OFF))
               \o When(StateIs(m, radiant_device_power_id, STATE_ON),
                       switch_turn(radiant_device_power_id, TURN_OFF))
               \o valves.calls,
     raised |-> valves.raised]

\* Radiant power off: the heat index is above the power-off setpoint.
radiant_power_down(m, hs) == power_down_result(m, power_down_valves(hs, 1))

\* The adjustable supply of the power-up branch.
power_up_supply(m) ==
    When(/\ Known(m, radiant_boiler_temp_system_supply)
         /\ Known(m, radiant_boiler_temp_system_return)
         /\ Known(m, power_supply_adjustable_id)
         /\ is_number(m[radiant_boiler_temp_system_supply])
         /\ is_number(m[radiant_boiler_temp_system_return])
         /\ float(m[radiant_boiler_temp_system_supply]) > 270
         /\ float(m[radiant_boiler_temp_system_return]) > 255
         /\ m[power_supply_adjustable_id] # STATE_ON,
         switch_turn(power_supply_adjustable_id, TURN_ON))

\* The mixing valve of the power-up branch, given the distributor's percent.
power_up_mixing(m, percent) ==
    When(/\ Known(m, power_supply_mixing_valve_id)
         /\ is_number(m[power_supply_mixing_valve_id])
         /\ float(m[power_supply_mixing_valve_id]) # percent,
         number_set_value(power_supply_mixing_valve_id, percent))

\* The power-up branch, given what the distributor returned.
power_up_result(m, collector) ==
    IF collector.raised # NoError
    THEN [calls |-> power_up_supply(m) \o collector.calls, raised |-> collector.raised]
    ELSE [calls |-> power_up_supply(m) \o collector.calls
                    \o power_up_mixing(m, collector.adjust_valve_percent),
          raised |-> NoError]

\* Radiant power on: adjustable supply, distributor, mixing valve.
radiant_power_up(m, hs, rec, power_on, power_off) ==
    power_up_result(m, async_radiant_thermal_collector_mode_auto(m, hs, rec, power_on, power_off))

\* The heating code written to the radiant actuator while the device is on.
radiant_heating_code(m) ==
    When(/\ Known(m, radiant_actuator_id)
         /\ is_number(m[radiant_actuator_id])
         /\ float(m[radiant_actuator_id]) # radiant_device_heating_code,
         number_set_value(radiant_actuator_id, radiant_device_heating_code))

\* The device-on branch, given what its power-down or power-up part did:
\* the evening shut-off follows unless that part raised.
radiant_device_on(m, body, now) ==
    IF body.raised # NoError
    THEN [calls |-> radiant_heating_code(m) \o body.calls, raised |-> body.raised]
    ELSE [calls |-> radiant_heating_code(m) \o body.calls
                    \o When(now > time(22, 0),
                            switch_turn(radiant_device_power_id, TURN_OFF)),
          raised |-> NoError]

\* The winter handler with the drain-down of the device-off branch taken at
\* a return temperature of 25.5 as well.
async_radiant_mode_auto_season_winter_at_most(m, hs, rec, is_device_power_on, power_on, power_off, home_current_heat_index, now) ==
    IF is_device_power_on
    THEN radiant_device_on(m, IF home_current_heat_index > power_off
                              THEN radiant_power_down(m, hs)
                              ELSE radiant_power_up(m, hs, rec, power_on, power_off),
                           now)
    ELSE IF /\ StateIs(m, power_supply_adjustable_id, STATE_ON)
            /\ Known(m, radiant_boiler_temp_system_return)
            /\ is_number(m[radiant_boiler_temp_system_return])
            /\ float(m[radiant_boiler_temp_system_return]) <= 255
    THEN [calls |-> << switch_turn(power_supply_adjustable_id, TURN_OFF),
                       switch_turn(radiant_device_power_id, TURN_OFF) >>
                    \o device_off_valves(hs, 1),
          raised |-> NoError]
    ELSE [calls |-> << >>, raised |-> NoError]

\* _async_radiant_mode_auto_season_winter.
async_radiant_mode_auto_season_winter(m, hs, rec, is_device_power_on, power_on, power_off, home_current_heat_index, now) ==
    IF is_device_power_on
    THEN radiant_device_on(m, IF home_current_heat_index > power_off
                              THEN radiant_power_down(m, hs)
                              ELSE radiant_power_up(m, hs, rec, power_on, power_off),
                           now)
    ELSE IF /\ StateIs(m, power_supply_adjustable_id, STATE_ON)
            /\ Known(m, radiant_boiler_temp_system_return)
            /\ is_number(m[radiant_boiler_temp_system_return])
            /\ float(m[radiant_boiler_temp_system_return]) < 255
    THEN [calls |-> << switch_turn(power_supply_adjustable_id, TURN_OFF),
                       switch_turn(radiant_device_power_id, TURN_OFF) >>
                    \o device_off_valves(hs, 1),
          raised |-> NoError]
    ELSE [calls |-> << >>, raised |-> NoError]

\* The radiant controller calling its winter handler in every season.
radiant_with_reading_any_season(m, hs, rec, season_name, power_on, power_off, now, home_current_temp_hum) ==
    IF home_current_temp_hum.raised # NoError
    THEN [calls |-> << >>, raised |-> home_current_temp_hum.raised]
    ELSE IF home_current_temp_hum.none
    THEN [calls |-> << >>, raised |-> "AttributeError"]
    ELSE async_radiant_mode_auto_season_winter(m, hs, rec,
             StateIs(m, radiant_fm_power_id, STATE_ON)
                 /\ StateIs(m, radiant_device_power_id, STATE_ON),
             power_on, power_off, home_current_temp_hum.t_avg_h_index, now)

\* _async_radiant_mode_auto past the windows test, given what the
\* aggregator gave.
radiant_with_reading(m, hs, rec, season_name, power_on, power_off, now, home_current_temp_hum) ==
    IF home_current_temp_hum.raised # NoError
    THEN [calls |-> << >>, raised |-> home_current_temp_hum.raised]
    ELSE IF home_current_temp_hum.none
    THEN [calls |-> << >>, raised |-> "AttributeError"]
    ELSE IF season_name # WINTER
    THEN [calls |-> << >>, raised |-> NoError]
    ELSE async_radiant_mode_auto_season_winter(m, hs, rec,
             StateIs(m, radiant_fm_power_id, STATE_ON)
                 /\ StateIs(m, radiant_device_power_id, STATE_ON),
             power_on, power_off, home_current_temp_hum.t_avg_h_index, now)

\* _async_radiant_mode_auto.  m is the hub's map, sm the map passed in.
async_radiant_mode_auto(m, sm, hs, rec, season_name, power_on, power_off, now) ==
    IF ~is_home_windows_closed(m)
    THEN [calls |-> << >>, raised |-> NoError]
    ELSE radiant_with_reading(m, hs, rec, season_name, power_on, power_off, now,
                              async_ambient_temp_hum(config_areas, sm))

(***************************************************************************)
(* DevicesHub.async_hvac_control.  label is what get_season_by_date gave   *)
(* and temperatures what get_weather_temps gave; p_on and p_off are the    *)
(* setpoints the hub holds on entry.  The VMC and the radiant controller   *)
(* run in this order, and an exception in the first skips the second.      *)
(***************************************************************************)
\* The value of None in the two setpoint attributes.
Unset == 0 - 1

\* The season name taken from the calendar whatever the forecast says.
hvac_season_name_calendar(season_info) ==
    season_info.label

hvac_season_name(season_info) ==
    IF season_info.weather_anomaly = "True" THEN season_info.overridden ELSE season_info.label

\* mean([temp_max, temp_min]) - delta_temp * 2 (exact for the winter zone).
setpoint_power_on(confort_zone) ==
    (CONFORT_ZONES[confort_zone].temp_max + CONFORT_ZONES[confort_zone].temp_min) \div 2
        - 2 * CONFORT_ZONES[confort_zone].delta_temp

\* The power-off setpoint computed as the power-on setpoint is.
setpoint_power_off_as_power_on(confort_zone) ==
    (CONFORT_ZONES[confort_zone].temp_max + CONFORT_ZONES[confort_zone].temp_min) \div 2
        - 2 * CONFORT_ZONES[confort_zone].delta_temp

\* temp_max + delta_temp * 2
setpoint_power_off(confort_zone) ==
    CONFORT_ZONES[confort_zone].temp_max + 2 * CONFORT_ZONES[confort_zone].delta_temp

\* What the cycle did, given what the two controllers returned.
hvac_after_radiant(on1, off1, vmc, radiant) ==
    [vmc_calls |-> vmc.calls, radiant_calls |-> radiant.calls,
     raised |-> radiant.raised, alarm |-> vmc.alarm,
     power_on |-> on1, power_off |-> off1]

\* What the cycle did, given what the VMC controller returned; the radiant
\* controller runs only if the VMC controller did not raise.
hvac_after_vmc(m, sm, hs, rec, season_name, on1, off1, now, vmc) ==
    IF vmc.raised # NoError
    THEN [vmc_calls |-> vmc.calls, radiant_calls |-> << >>,
          raised |-> vmc.raised, alarm |-> vmc.alarm,
          power_on |-> on1, power_off |-> off1]
    ELSE hvac_after_radiant(on1, off1, vmc,
             async_radiant_mode_auto(m, sm, hs, rec, season_name, on1, off1, now))

\* Lines 669-680, with the two setpoints as they stand after 669-671.
hvac_controllers(m, sm, hs, rec, alarm, season_name, confort_zone, on1, off1, now) ==
    hvac_after_vmc(m, sm, hs, rec, season_name, on1, off1, now,
                   async_vmc_mode_auto(m, sm, alarm, season_name, confort_zone, off1, now))

\* Lines 666-680, given the season name and the comfort zone.
hvac_in_season(m, sm, hs, rec, alarm, p_on, p_off, now, season_name, confort_zone) ==
    IF season_name = WINTER /\ confort_zone = None
    THEN [vmc_calls |-> << >>, radiant_calls |-> << >>, raised |-> "TypeError",
          alarm |-> alarm, power_on |-> p_on, power_off |-> p_off]
    ELSE hvac_controllers(m, sm, hs, rec, alarm, season_name, confort_zone,
             IF season_name = WINTER THEN setpoint_power_on(confort_zone) ELSE p_on,
             IF season_name = WINTER THEN setpoint_power_off(confort_zone) ELSE p_off,
             now)

\* Lines 660-680, given what get_season_from_weather returned.
hvac_with_season(m, sm, hs, rec, alarm, p_on, p_off, now, season_info) ==
    hvac_in_season(m, sm, hs, rec, alarm, p_on, p_off, now,
                   hvac_season_name(season_info), get_confort_zone(season_info))

async_hvac_control(hvac_mode, m, sm, hs, rec, temperatures, label, alarm, p_on, p_off, now) ==
    IF hvac_mode # HVAC_AUTO
    THEN [vmc_calls |-> << >>, radiant_calls |-> << >>, raised |-> NoError,
          alarm |-> alarm, power_on |-> p_on, power_off |-> p_off]
    ELSE hvac_with_season(m, sm, hs, rec, alarm, p_on, p_off, now,
                          get_season_from_weather(label, temperatures))

(***************************************************************************)
(* The state after DevicesHub.__init__ and HomeClimateMaster.__init__:     *)
(* both maps empty, the latch clear, the setpoints None, the mode AUTO.    *)
(* The climate entity's constructor subscripts get_confort_zone(), so a    *)
(* forecast was there when it ran.  The environment (forecast, valves,     *)
(* recorder, the calendar label) is drawn from the sets a specification    *)
(* names.                                                                  *)
(***************************************************************************)
NoCurrent == [set |-> FALSE, temperature |-> 0, humidity |-> 0, h_index |-> 0]

Constructed(forecasts, labels, valve_states, sensor_states, recorder_answers) ==
    /\ sensor_map = [e \in HubEntities |-> NoKey]
    /\ climate_sensor_map = [e \in AreaSensors |-> NoKey]
    /\ attr_current = NoCurrent
    /\ attr_hvac_mode = HVAC_AUTO
    /\ \E valves \in [Valves -> valve_states], sensors \in [AreaSensors -> sensor_states] :
           hass_states = [e \in Valves \cup AreaSensors |->
                             IF e \in Valves THEN valves[e] ELSE sensors[e]]
    /\ started = FALSE
    /\ recorder \in [Valves -> recorder_answers]
    /\ forecast \in forecasts
    /\ calendar_season \in labels
    /\ vmc_controller_water_alarm = FALSE
    /\ confort_setpoint_power_on = Unset
    /\ confort_setpoint_power_off = Unset
    /\ runs = 0
    /\ ora_corrente = 0
    /\ vmc_calls = << >>
    /\ radiant_calls = << >>
    /\ raised = NoError
    /\ arguments = << >>
    /\ returned = << >>

\* What an event leaves of the record of the last cycle.
Forgotten ==
    /\ runs' = 0
    /\ ora_corrente' = 0
    /\ vmc_calls' = << >>
    /\ radiant_calls' = << >>
    /\ raised' = NoError

\* DevicesHub._async_entity_changed
EntityChanged(entity_id, new_state) ==
    /\ sensor_map' = [sensor_map EXCEPT ![entity_id] = new_state]
    /\ Forgotten
    /\ UNCHANGED << climate_sensor_map, attr_current, attr_hvac_mode, hass_states, started, recorder,
                    forecast, calendar_season, vmc_controller_water_alarm,
                    confort_setpoint_power_on, confort_setpoint_power_off,
                    arguments, returned >>

\* HomeClimateMaster._async_sensor_changed
SensorChanged(entity_id, new_state) ==
    /\ climate_sensor_map' = [climate_sensor_map EXCEPT ![entity_id] = new_state]
    /\ Forgotten
    /\ UNCHANGED << sensor_map, attr_current, attr_hvac_mode, hass_states, started, recorder,
                    forecast, calendar_season, vmc_controller_water_alarm,
                    confort_setpoint_power_on, confort_setpoint_power_off,
                    arguments, returned >>

\* HomeClimateMaster._async_read_sensors, the listen-once handler of
\* EVENT_HOMEASSISTANT_START: every zone sensor's key is set, to None when
\* hass.states has no such entity.
async_read_sensors ==
    /\ ~started
    /\ started' = TRUE
    /\ climate_sensor_map' = [e \in AreaSensors |-> hass_states[e]]
    /\ Forgotten
    /\ UNCHANGED << sensor_map, attr_current, attr_hvac_mode, hass_states, recorder,
                    forecast, calendar_season, vmc_controller_water_alarm,
                    confort_setpoint_power_on, confort_setpoint_power_off,
                    arguments, returned >>

\* A control cycle that records in the hub's snapshot the state its first
\* switch command asks for.
async_update_recording_command(now) ==
    /\ runs < MaxRuns
    /\ runs' = runs + 1
    /\ ora_corrente' = now
    /\ \E temp_hum \in {async_ambient_temp_hum(config_areas, climate_sensor_map)} :
           IF temp_hum.raised # NoError
           THEN /\ raised' = temp_hum.raised
                /\ vmc_calls' = << >>
                /\ radiant_calls' = << >>
                /\ UNCHANGED << attr_current, vmc_controller_water_alarm,
                                confort_setpoint_power_on, confort_setpoint_power_off >>
           ELSE /\ attr_current' = IF temp_hum.none THEN attr_current
                                   ELSE [set |-> TRUE, temperature |-> temp_hum.temp,
                                         humidity |-> temp_hum.hum,
                                         h_index |-> temp_hum.t_avg_h_index]
                /\ \E control \in {async_hvac_control(attr_hvac_mode, sensor_map,
                                       climate_sensor_map, hass_states, recorder,
                                       forecast, calendar_season,
                                       vmc_controller_water_alarm,
                                       confort_setpoint_power_on,
                                       confort_setpoint_power_off, now)} :
                       /\ raised' = control.raised
                       /\ vmc_calls' = control.vmc_calls
                       /\ radiant_calls' = control.radiant_calls
                       /\ vmc_controller_water_alarm' = control.alarm
                       /\ confort_setpoint_power_on' = control.power_on
                       /\ confort_setpoint_power_off' = control.power_off
    /\ sensor_map' = IF vmc_calls' # << >> /\ vmc_calls'[1].service \in {TURN_ON, TURN_OFF}
                     THEN [sensor_map EXCEPT ![vmc_calls'[1].entity_id] =
                              IF vmc_calls'[1].service = TURN_ON THEN STATE_ON ELSE STATE_OFF]
                     ELSE sensor_map
    /\ UNCHANGED << climate_sensor_map, attr_hvac_mode, hass_states,
                    started, recorder, forecast, calendar_season, arguments, returned >>

\* HomeClimateMaster.async_update at local time now: one control cycle.
async_update(now) ==
    /\ runs < MaxRuns
    /\ runs' = runs + 1
    /\ ora_corrente' = now
    /\ \E temp_hum \in {async_ambient_temp_hum(config_areas, climate_sensor_map)} :
           IF temp_hum.raised # NoError
           THEN /\ raised' = temp_hum.raised
                /\ vmc_calls' = << >>
                /\ radiant_calls' = << >>
                /\ UNCHANGED << attr_current, vmc_controller_water_alarm,
                                confort_setpoint_power_on, confort_setpoint_power_off >>
           ELSE /\ attr_current' = IF temp_hum.none THEN attr_current
                                   ELSE [set |-> TRUE, temperature |-> temp_hum.temp,
                                         humidity |-> temp_hum.hum,
                                         h_index |-> temp_hum.t_avg_h_index]
                /\ \E control \in {async_hvac_control(attr_hvac_mode, sensor_map,
                                       climate_sensor_map, hass_states, recorder,
                                       forecast, calendar_season,
                                       vmc_controller_water_alarm,
                                       confort_setpoint_power_on,
                                       confort_setpoint_power_off, now)} :
                       /\ raised' = control.raised
                       /\ vmc_calls' = control.vmc_calls
                       /\ radiant_calls' = control.radiant_calls
                       /\ vmc_controller_water_alarm' = control.alarm
                       /\ confort_setpoint_power_on' = control.power_on
                       /\ confort_setpoint_power_off' = control.power_off
    /\ UNCHANGED << sensor_map, climate_sensor_map, attr_hvac_mode, hass_states,
                    started, recorder, forecast, calendar_season, arguments, returned >>

(***************************************************************************)
(* The environment of the specifications below.                            *)
(***************************************************************************)
\* A forecast of one cold day (2.0 to 8.0 degrees): the estimator picks winter.
ColdForecast == << [min |-> 20, max |-> 80] >>

RecorderSeen == [ok |-> TRUE, count |-> 1]

Events(entity_id, states) == { << entity_id, new_state >> : new_state \in states }

(***************************************************************************)
(* Spec: the winter time-window schedule of the VMC.  A winter day with    *)
(* the forecast and the calendar agreeing; the events are the windows      *)
(* sensor, the VMC's power, treatment mode, spare setpoint and             *)
(* recirculation vent, and the sensors of the first zone (one zone missing *)
(* is within the aggregator's tolerance).                                  *)
(***************************************************************************)
ScheduleEntityEvents ==
    Events(vmc_home_windows_state, {"on", "off"})
        \cup Events(vmc_power_entity_id, {STATE_ON, STATE_OFF})
        \cup Events(season_actuator_id, {"Off", vmc_season_winter})
        \cup Events(vmc_spare_setpoint_id, {"1", "5", UNAVAILABLE})
        \cup Events(vmc_vent_recirculation_id, {STATE_ON, STATE_OFF})

ScheduleSensorEvents ==
    Events(config_areas[1].temperature, {"20.0", UNAVAILABLE})
        \cup Events(config_areas[1].humidity, {"50.0"})

ScheduleTimes == { time(3, 0), time(13, 30), time(16, 0) }

Init == Constructed({ColdForecast}, {WINTER}, {STATE_OFF}, {None}, {RecorderSeen})

Next ==
    \/ \E event \in ScheduleEntityEvents : EntityChanged(event[1], event[2])
    \/ \E event \in ScheduleSensorEvents : SensorChanged(event[1], event[2])
    \/ \E now \in ScheduleTimes : async_update(now)

Spec == Init /\ [][Next]_vars

(***************************************************************************)
(* SpecInterlock: the interlock branch of the winter handler and the       *)
(* water-alarm latch.  The zone sensors all report (20.0 degrees, 50 %) and*)
(* reach the climate entity's map when Home Assistant starts; the events   *)
(* are the windows sensor, the VMC power, the adjustable and direct supply *)
(* paths, the blending valve, the alarm sensor and the two temperatures    *)
(* the latch is reset on.                                                  *)
(***************************************************************************)
InterlockEntityEvents ==
    Events(vmc_home_windows_state, {"on", "off"})
        \cup Events(vmc_power_entity_id, {STATE_ON})
        \cup Events(power_supply_adjustable_id, {STATE_ON})
        \cup Events(power_supply_mixing_valve_id, {"60.0", "70.0"})
        \cup Events(power_supply_direct_id, {STATE_ON, STATE_OFF})
        \cup Events(vmc_high_water_temp, {STATE_ON, STATE_OFF})
        \cup Events(vmc_t_water, {"20.0", "26.0"})
        \cup Events(vmc_t_ambient, {"24.0"})

InterlockTimes == { time(3, 0), time(16, 0) }

InitInterlock ==
    /\ Constructed({ColdForecast}, {WINTER}, {STATE_OFF}, {"20.0", "50.0"}, {RecorderSeen})
    /\ \A i \in 1..Len(config_areas) :
          /\ hass_states[config_areas[i].temperature] = "20.0"
          /\ hass_states[config_areas[i].humidity] = "50.0"

NextInterlock ==
    \/ \E event \in InterlockEntityEvents : EntityChanged(event[1], event[2])
    \/ async_read_sensors
    \/ \E now \in InterlockTimes : async_update(now)

SpecInterlock == InitInterlock /\ [][NextInterlock]_vars

(***************************************************************************)
(* SpecRadiant: the radiant controller with the plant's power, supply and  *)
(* boiler readings changing.  The zone sensors report 20.0 or 24.0 degrees *)
(* (a heat index below or above the power-off setpoint) and reach the      *)
(* climate entity's map when Home Assistant starts.                        *)
(***************************************************************************)
RadiantEntityEvents ==
    Events(vmc_home_windows_state, {"on"})
        \cup Events(radiant_fm_power_id, {STATE_ON})
        \cup Events(radiant_device_power_id, {STATE_ON, STATE_OFF})
        \cup Events(power_supply_adjustable_id, {STATE_ON, STATE_OFF})
        \cup Events(radiant_boiler_temp_system_supply, {"28.0"})
        \cup Events(radiant_boiler_temp_system_return, {"20.0", "28.0"})
        \cup Events(power_supply_mixing_valve_id, {"50.0"})

RadiantTimes == { time(16, 0), time(22, 30) }

InitRadiant ==
    /\ Constructed({ColdForecast}, {WINTER}, {STATE_ON, STATE_OFF}, {"20.0", "24.0", "50.0"},
                   {RecorderSeen})
    /\ hass_states[config_areas[2].thermal_collector_valve_switch] = STATE_OFF
    /\ hass_states[config_areas[3].thermal_collector_valve_switch] = STATE_OFF
    /\ \A i \in 1..Len(config_areas) :
          /\ hass_states[config_areas[i].temperature] = hass_states[config_areas[1].temperature]
          /\ hass_states[config_areas[i].temperature] # "50.0"
          /\ hass_states[config_areas[i].humidity] = "50.0"

NextRadiant ==
    \/ \E event \in RadiantEntityEvents : EntityChanged(event[1], event[2])
    \/ async_read_sensors
    \/ \E now \in RadiantTimes : async_update(now)

SpecRadiant == InitRadiant /\ [][NextRadiant]_vars

(***************************************************************************)
(* SpecDistributor: the thermal-collector distributor and the power-down   *)
(* branch with the zone valves open or closed.  The hub's snapshot gets    *)
(* the zone sensors: the first zone's room temperature is at or below the  *)
(* power-on setpoint (18.0), in the deadband (20.0), above the power-off   *)
(* setpoint (24.0) or 'unavailable'; the second zone's is above the        *)
(* power-off setpoint.  The recorder answers the first zone's query with a *)
(* count of 1 or 0, or sqlite raises.                                      *)
(***************************************************************************)
RecorderIdle == [ok |-> TRUE, count |-> 0]

RecorderFails == [ok |-> FALSE, count |-> 0]

DistributorEntityEvents ==
    Events(vmc_home_windows_state, {"on"})
        \cup Events(radiant_fm_power_id, {STATE_ON})
        \cup Events(radiant_device_power_id, {STATE_ON})
        \cup Events(config_areas[1].temperature, {"18.0", "20.0", "24.0", UNAVAILABLE})
        \cup Events(config_areas[1].humidity, {"50.0"})
        \cup Events(config_areas[2].temperature, {"24.0"})
        \cup Events(config_areas[2].humidity, {"50.0"})

DistributorTimes == { time(16, 0) }

InitDistributor ==
    /\ Constructed({ColdForecast}, {WINTER}, {STATE_ON, STATE_OFF}, {"20.0", "24.0", "50.0"},
                   {RecorderSeen, RecorderIdle, RecorderFails})
    /\ hass_states[config_areas[3].thermal_collector_valve_switch] = STATE_OFF
    /\ recorder[config_areas[2].thermal_collector_valve_switch] = RecorderSeen
    /\ recorder[config_areas[3].thermal_collector_valve_switch] = RecorderSeen
    /\ \A i \in 1..Len(config_areas) :
          /\ hass_states[config_areas[i].temperature] = hass_states[config_areas[1].temperature]
          /\ hass_states[config_areas[i].temperature] # "50.0"
          /\ hass_states[config_areas[i].humidity] = "50.0"

NextDistributor ==
    \/ \E event \in DistributorEntityEvents : EntityChanged(event[1], event[2])
    \/ async_read_sensors
    \/ \E now \in DistributorTimes : async_update(now)

SpecDistributor == InitDistributor /\ [][NextDistributor]_vars

(***************************************************************************)
(* SpecAggregator: async_ambient_temp_hum called once on a configuration   *)
(* of three radiant zones and one indoor area that the plant does not      *)
(* serve.  Each temperature sensor is missing from the snapshot, holds     *)
(* None, reports 20.0 or is 'unavailable'; each humidity sensor is missing *)
(* or reports 50.0.                                                        *)
(***************************************************************************)
AggregatorAreas ==
    << [area |-> "Zone1", indoor |-> TRUE, radiant |-> TRUE, mq |-> 30,
        temperature |-> "sensor.zone1_t", humidity |-> "sensor.zone1_h",
        thermal_collector_valve_switch |-> "switch.zone1_valve"],
       [area |-> "Zone2", indoor |-> TRUE, radiant |-> TRUE, mq |-> 20,
        temperature |-> "sensor.zone2_t", humidity |-> "sensor.zone2_h",
        thermal_collector_valve_switch |-> "switch.zone2_valve"],
       [area |-> "Zone3", indoor |-> TRUE, radiant |-> TRUE, mq |-> 10,
        temperature |-> "sensor.zone3_t", humidity |-> "sensor.zone3_h",
        thermal_collector_valve_switch |-> "switch.zone3_valve"],
       [area |-> "Cellar", indoor |-> TRUE, radiant |-> FALSE, mq |-> 10,
        temperature |-> "sensor.cellar_t", humidity |-> "sensor.cellar_h",
        thermal_collector_valve_switch |-> "switch.cellar_valve"] >>

AggregatorTemperatures == { AggregatorAreas[i].temperature : i \in 1..Len(AggregatorAreas) }

AggregatorHumidities == { AggregatorAreas[i].humidity : i \in 1..Len(AggregatorAreas) }

AggregatorSnapshots ==
    { [e \in AggregatorTemperatures \cup AggregatorHumidities |->
          IF e \in AggregatorTemperatures THEN temps[e] ELSE hums[e]] :
      temps \in [AggregatorTemperatures -> {NoKey, None, "20.0", UNAVAILABLE}],
      hums \in [AggregatorHumidities -> {NoKey, "50.0"}] }

\* The variables a direct call of a function leaves alone.
hub_vars ==
    << sensor_map, climate_sensor_map, attr_current, attr_hvac_mode, hass_states,
       started, recorder, forecast, calendar_season, vmc_controller_water_alarm,
       confort_setpoint_power_on, confort_setpoint_power_off,
       runs, ora_corrente, vmc_calls, radiant_calls, raised >>

\* A direct call of async_ambient_temp_hum, once per behaviour: what it was
\* given and what it gave back.
call_async_ambient_temp_hum(areas, sm) ==
    /\ arguments = << >>
    /\ arguments' = << "async_ambient_temp_hum", areas, sm >>
    /\ returned' = async_ambient_temp_hum(areas, sm)
    /\ UNCHANGED hub_vars

InitAggregator == Constructed({ColdForecast}, {WINTER}, {STATE_OFF}, {None}, {RecorderSeen})

NextAggregator ==
    \E sm \in AggregatorSnapshots : call_async_ambient_temp_hum(AggregatorAreas, sm)

SpecAggregator == InitAggregator /\ [][NextAggregator]_vars

(***************************************************************************)
(* SpecSeasonByDate: get_season_by_date called once on any day of a year   *)
(* before a leap year, a leap year, a year after a leap year and a century *)
(* year that is not leap.                                                  *)
(***************************************************************************)
CalendarYears == {2023, 2024, 2025, 2100}

CalendarDates ==
    { d \in { date(y, m, dd) : y \in CalendarYears, m \in 1..12, dd \in 1..31 } :
        d.day <= days_in_month(d.year, d.month) }

call_get_season_by_date(data) ==
    /\ arguments = << >>
    /\ arguments' = << "get_season_by_date", data >>
    /\ returned' = get_season_by_date(data)
    /\ UNCHANGED hub_vars

InitSeasonByDate == Constructed({ColdForecast}, {WINTER}, {STATE_OFF}, {None}, {RecorderSeen})

NextSeasonByDate == \E data \in CalendarDates : call_get_season_by_date(data)

SpecSeasonByDate == InitSeasonByDate /\ [][NextSeasonByDate]_vars

(***************************************************************************)
(* SpecSeason: the season estimate under a changing forecast.  The         *)
(* forecast is what get_weather_temps builds from the weather entities:    *)
(* none, one or two days, each with a minimum and a maximum; the calendar  *)
(* label is any of the four.  The estimate is read by a direct call of     *)
(* get_season_from_weather, by the climate entity's attributes and by the  *)
(* control cycle.                                                          *)
(***************************************************************************)
Forecasts ==
    UNION { [1..n -> [min : {200, 220, 280}, max : {200, 220, 280}]] : n \in 0..2 }

\* The weather entities change: get_weather_temps returns temperatures from
\* now on (the empty sequence for None).
WeatherChanged(temperatures) ==
    /\ forecast # temperatures
    /\ forecast' = temperatures
    /\ Forgotten
    /\ arguments' = << >>
    /\ returned' = << >>
    /\ UNCHANGED << sensor_map, climate_sensor_map, attr_current, attr_hvac_mode, hass_states,
                    started, recorder, calendar_season, vmc_controller_water_alarm,
                    confort_setpoint_power_on, confort_setpoint_power_off >>

\* A direct call of get_season_from_weather: what it read and what it gave
\* back.
call_get_season_from_weather ==
    /\ arguments' = << "get_season_from_weather", calendar_season, forecast >>
    /\ returned' = get_season_from_weather(calendar_season, forecast)
    /\ UNCHANGED hub_vars

\* HomeClimateMaster.extra_state_attributes: the two season attributes, read
\* by subscript.
extra_state_attributes ==
    /\ arguments' = << "extra_state_attributes", calendar_season, forecast >>
    /\ \E season \in {get_season_from_weather(calendar_season, forecast)} :
           returned' = IF season.overridden = NoKey \/ season.weather_anomaly = NoKey
                       THEN [raised |-> "KeyError", season |-> NoKey, weather_anomaly |-> NoKey]
                       ELSE [raised |-> NoError, season |-> season.overridden,
                             weather_anomaly |-> season.weather_anomaly]
    /\ UNCHANGED hub_vars

InitSeason == Constructed({ColdForecast}, Seasons, {STATE_OFF}, {"20.0"}, {RecorderSeen})

NextSeason ==
    \/ \E temperatures \in Forecasts : WeatherChanged(temperatures)
    \/ \E new_state \in {"on", "off"} : EntityChanged(vmc_home_windows_state, new_state)
    \/ async_read_sensors
    \/ \E now \in DistributorTimes : async_update(now)
    \/ call_get_season_from_weather
    \/ extra_state_attributes

SpecSeason == InitSeason /\ [][NextSeason]_vars

(***************************************************************************)
(* SpecSetpoints: the season the cycle runs in, the two confort setpoints  *)
(* and the VMC's setpoint writes.  The calendar label is any of the four;  *)
(* the forecast is cold, warm or missing; the zone sensors all report      *)
(* (20.0 degrees, 50 %) and reach the climate entity's map when Home       *)
(* Assistant starts.  The events are the windows sensor, the VMC power and *)
(* the VMC's temperature and humidity setpoints as the device reports them.*)
(***************************************************************************)
\* A forecast of one warm day (22.0 to 28.0 degrees).
WarmForecast == << [min |-> 220, max |-> 280] >>

SetpointsForecasts == { << >>, ColdForecast, WarmForecast }

SetpointsEntityEvents ==
    Events(vmc_home_windows_state, {"on", "off"})
        \cup Events(vmc_power_entity_id, {STATE_ON, STATE_OFF})
        \cup Events(vmc_t_setpoint_entity_id, {"18.5", "22.5", UNAVAILABLE})
        \cup Events(vmc_h_setpoint_entity_id, {"61.0", "50.0"})

InitSetpoints ==
    /\ Constructed({ColdForecast}, Seasons, {STATE_OFF}, {"20.0", "50.0"}, {RecorderSeen})
    /\ \A i \in 1..Len(config_areas) :
          /\ hass_states[config_areas[i].temperature] = "20.0"
          /\ hass_states[config_areas[i].humidity] = "50.0"

NextSetpoints ==
    \/ \E temperatures \in SetpointsForecasts : WeatherChanged(temperatures)
    \/ \E event \in SetpointsEntityEvents : EntityChanged(event[1], event[2])
    \/ async_read_sensors
    \/ \E now \in DistributorTimes : async_update(now)

SpecSetpoints == InitSetpoints /\ [][NextSetpoints]_vars

(***************************************************************************)
(* SpecPowerUp: the power-up branch and the device-off branch of the       *)
(* radiant winter handler.  The zone sensors report (20.0 degrees, 50 %),  *)
(* a heat index below the power-off setpoint; the events are the unit's    *)
(* two power switches, the adjustable supply, the boiler supply at and     *)
(* above 27, the boiler return below, at and above 25.5, the blending      *)
(* valve and the living room's sensors as the hub sees them.  The living   *)
(* room's valve is open or closed and the recorder answers or fails for    *)
(* it.                                                                     *)
(***************************************************************************)
PowerUpEntityEvents ==
    Events(vmc_home_windows_state, {"on"})
        \cup Events(radiant_fm_power_id, {STATE_ON})
        \cup Events(radiant_device_power_id, {STATE_ON, STATE_OFF})
        \cup Events(power_supply_adjustable_id, {STATE_ON, STATE_OFF})
        \cup Events(radiant_boiler_temp_system_supply, {"27.0", "28.0"})
        \cup Events(radiant_boiler_temp_system_return, {"20.0", "25.5", "26.0"})
        \cup Events(power_supply_mixing_valve_id, {"50.0", "60.0"})
        \cup Events(config_areas[1].temperature, {"20.0"})
        \cup Events(config_areas[1].humidity, {"50.0"})

InitPowerUp ==
    /\ Constructed({ColdForecast}, {WINTER}, {STATE_ON, STATE_OFF}, {"20.0", "50.0"},
                   {RecorderSeen, RecorderFails})
    /\ hass_states[config_areas[2].thermal_collector_valve_switch] = STATE_OFF
    /\ hass_states[config_areas[3].thermal_collector_valve_switch] = STATE_OFF
    /\ recorder[config_areas[2].thermal_collector_valve_switch] = RecorderSeen
    /\ recorder[config_areas[3].thermal_collector_valve_switch] = RecorderSeen
    /\ \A i \in 1..Len(config_areas) :
          /\ hass_states[config_areas[i].temperature] = "20.0"
          /\ hass_states[config_areas[i].humidity] = "50.0"

NextPowerUp ==
    \/ \E event \in PowerUpEntityEvents : EntityChanged(event[1], event[2])
    \/ async_read_sensors
    \/ \E now \in DistributorTimes : async_update(now)

SpecPowerUp == InitPowerUp /\ [][NextPowerUp]_vars

(***************************************************************************)
(* SpecWeightedAverage: helpers.weighted_average called once on lists of   *)
(* up to three values and up to three weights, equal in length or not,     *)
(* zero weights included.                                                  *)
(***************************************************************************)
call_weighted_average(valori, pesi) ==
    /\ arguments = << >>
    /\ arguments' = << "weighted_average", valori, pesi >>
    /\ returned' = weighted_average(valori, pesi)
    /\ UNCHANGED hub_vars

NextWeightedAverage ==
    \E valori \in UNION { [1..n -> {10, 20, 25}] : n \in 0..3 },
       pesi \in UNION { [1..n -> {0, 1, 3}] : n \in 0..3 } :
        call_weighted_average(valori, pesi)

SpecWeightedAverage == Init /\ [][NextWeightedAverage]_vars

(***************************************************************************)
(* SpecDewPoint: the dew point of an aggregate reading, computed once for  *)
(* an average temperature of 0 to 30 degrees and an average humidity from  *)
(* -10 % to 120 %: a humidity sensor may report anything.                  *)
(***************************************************************************)
call_calculate_dew_point(temperature, humidity) ==
    /\ arguments = << >>
    /\ arguments' = << "calculate_dew_point", temperature, humidity >>
    /\ returned' = ambient_dew_point(calculate_dew_point(temperature, humidity))
    /\ UNCHANGED hub_vars

NextDewPoint ==
    \E temperature \in { 50 * i : i \in 0..6 },
       humidity \in { 100 * i : i \in 0..10 } \cup { 0 - 100, 1001, 1010, 1200 } :
        call_calculate_dew_point(temperature, humidity)

SpecDewPoint == Init /\ [][NextDewPoint]_vars

(***************************************************************************)
(* SpecAwait: one control cycle taken apart at the awaits of its two VMC   *)
(* setpoint writes.  Home Assistant runs coroutines and event listeners on *)
(* one event loop: a listener runs only while no coroutine is running,     *)
(* that is between cycles or while the running cycle is suspended in an    *)
(* await.  arguments is the frame of the cycle in progress (<< >> when      *)
(* none ever ran) and returned its position and locals: pc, the            *)
(* is_device_power_on read at line 944, the calls made so far, the         *)
(* exception the VMC controller met, whether the controller got past the   *)
(* aggregator, and whether the cycle is suspended in an await.             *)
(***************************************************************************)
\* The season name async_hvac_control arrives at (lines 654-663).
SeasonOfCycle == hvac_season_name(get_season_from_weather(calendar_season, forecast))

\* hass.services.async_call(domain, service, service_data, blocking): the
\* service runs in a task of its own and the caller is suspended until it
\* has run iff blocking.
services_async_call_suspends(blocking) == blocking

\* A number write that waits for the service to have run.
number_set_value_blocking == services_async_call_suspends(TRUE)

\* _async_number_set_value awaits async_call without the blocking argument,
\* which defaults to False.
number_set_value_suspends == services_async_call_suspends(FALSE)

CycleInProgress == arguments # << >> /\ returned.pc # "done"

\* An event loop that runs listeners at any time.
LoopPreemptive == TRUE

\* The event loop can run a listener.
LoopFree == IF CycleInProgress THEN returned.suspended ELSE TRUE

frame(pc, is_device_power_on, calls, exception, entered, suspended) ==
    [pc |-> pc, is_device_power_on |-> is_device_power_on, calls |-> calls,
     raised |-> exception, entered |-> entered, suspended |-> suspended]

\* The frame when _async_vmc_mode_auto has read is_device_power_on (line
\* 944), or has returned or raised before.
vmc_frame_entered(m, home_current_temp_hum) ==
    IF ~is_home_windows_closed(m)
    THEN frame("handler", FALSE, << >>, NoError, FALSE, FALSE)
    ELSE IF home_current_temp_hum.none
    THEN frame("handler", FALSE, << >>, "AttributeError", FALSE, FALSE)
    ELSE frame("temperature", StateIs(m, vmc_power_entity_id, STATE_ON), << >>,
               NoError, TRUE, FALSE)

\* async_update and async_hvac_control up to line 944 of the VMC controller:
\* the climate entity's attributes and the two setpoints are set.
cycle_begin(now) ==
    /\ ~CycleInProgress
    /\ attr_hvac_mode = HVAC_AUTO
    /\ SeasonOfCycle = WINTER
    /\ arguments' = << "async_update", now >>
    /\ ora_corrente' = now
    /\ vmc_calls' = << >>
    /\ radiant_calls' = << >>
    /\ \E temp_hum \in {async_ambient_temp_hum(config_areas, climate_sensor_map)} :
           IF temp_hum.raised # NoError
           THEN /\ returned' = frame("done", FALSE, << >>, temp_hum.raised, FALSE, FALSE)
                /\ raised' = temp_hum.raised
                /\ UNCHANGED << attr_current, confort_setpoint_power_on,
                                confort_setpoint_power_off >>
           ELSE /\ returned' = vmc_frame_entered(sensor_map, temp_hum)
                /\ raised' = NoError
                /\ attr_current' = IF temp_hum.none THEN attr_current
                                   ELSE [set |-> TRUE, temperature |-> temp_hum.temp,
                                         humidity |-> temp_hum.hum,
                                         h_index |-> temp_hum.t_avg_h_index]
                /\ confort_setpoint_power_on' = setpoint_power_on(WINTER)
                /\ confort_setpoint_power_off' = setpoint_power_off(WINTER)
    /\ UNCHANGED << sensor_map, climate_sensor_map, attr_hvac_mode, hass_states, started,
                    recorder, forecast, calendar_season, vmc_controller_water_alarm, runs >>

\* Lines 962-968: the temperature setpoint write and its await.
cycle_temperature_setpoint ==
    /\ CycleInProgress /\ returned.pc = "temperature"
    /\ \E write \in {/\ returned.is_device_power_on
                     /\ Known(sensor_map, vmc_t_setpoint_entity_id)
                     /\ is_number(sensor_map[vmc_t_setpoint_entity_id])
                     /\ float(sensor_map[vmc_t_setpoint_entity_id])
                           # confort_setpoint_power_off} :
           returned' = [returned EXCEPT
               !.pc = "humidity",
               !.calls = @ \o When(write, number_set_value(vmc_t_setpoint_entity_id,
                                                           confort_setpoint_power_off)),
               !.suspended = write /\ number_set_value_suspends]
    /\ UNCHANGED << hub_vars, arguments >>

\* Lines 972-978: the humidity setpoint write and its await.
cycle_humidity_setpoint ==
    /\ CycleInProgress /\ returned.pc = "humidity"
    /\ \E write \in {/\ returned.is_device_power_on
                     /\ Known(sensor_map, vmc_h_setpoint_entity_id)
                     /\ is_number(sensor_map[vmc_h_setpoint_entity_id])
                     /\ float(sensor_map[vmc_h_setpoint_entity_id])
                           # CONFORT_ZONES[WINTER].hum_max + CONFORT_ZONES[WINTER].delta_hum} :
           returned' = [returned EXCEPT
               !.pc = "handler",
               !.calls = @ \o When(write, number_set_value(vmc_h_setpoint_entity_id,
                               CONFORT_ZONES[WINTER].hum_max + CONFORT_ZONES[WINTER].delta_hum)),
               !.suspended = write /\ number_set_value_suspends]
    /\ UNCHANGED << hub_vars, arguments >>

\* What the VMC controller ends with, the winter handler run with the
\* is_device_power_on of the frame.
vmc_of_frame(m, alarm, locals, now) ==
    IF ~locals.entered
    THEN [calls |-> << >>, raised |-> locals.raised, alarm |-> alarm]
    ELSE [async_vmc_mode_auto_season_winter(m, alarm, locals.is_device_power_on, now)
             EXCEPT !.calls = locals.calls \o @]

\* Line 981 to the end of async_hvac_control: the winter handler of the VMC
\* and the radiant controller.
cycle_finish ==
    /\ CycleInProgress /\ returned.pc = "handler"
    /\ returned' = [returned EXCEPT !.pc = "done", !.suspended = FALSE]
    /\ \E control \in {hvac_after_vmc(sensor_map, climate_sensor_map, hass_states, recorder,
                           WINTER, confort_setpoint_power_on, confort_setpoint_power_off,
                           arguments[2],
                           vmc_of_frame(sensor_map, vmc_controller_water_alarm, returned,
                                        arguments[2]))} :
           /\ raised' = control.raised
           /\ vmc_calls' = control.vmc_calls
           /\ radiant_calls' = control.radiant_calls
           /\ vmc_controller_water_alarm' = control.alarm
    /\ UNCHANGED << sensor_map, climate_sensor_map, attr_current, attr_hvac_mode, hass_states,
                    started, recorder, forecast, calendar_season, confort_setpoint_power_on,
                    confort_setpoint_power_off, runs, ora_corrente, arguments >>

\* DevicesHub._async_entity_changed, run by the event loop.
loop_entity_changed(entity_id, new_state) ==
    /\ LoopFree
    /\ sensor_map' = [sensor_map EXCEPT ![entity_id] = new_state]
    /\ UNCHANGED << climate_sensor_map, attr_current, attr_hvac_mode, hass_states, started,
                    recorder, forecast, calendar_season, vmc_controller_water_alarm,
                    confort_setpoint_power_on, confort_setpoint_power_off,
                    runs, ora_corrente, vmc_calls, radiant_calls, raised,
                    arguments, returned >>

\* HomeClimateMaster._async_read_sensors, run by the event loop.
loop_read_sensors ==
    /\ LoopFree
    /\ ~started
    /\ started' = TRUE
    /\ climate_sensor_map' = [e \in AreaSensors |-> hass_states[e]]
    /\ UNCHANGED << sensor_map, attr_current, attr_hvac_mode, hass_states,
                    recorder, forecast, calendar_season, vmc_controller_water_alarm,
                    confort_setpoint_power_on, confort_setpoint_power_off,
                    runs, ora_corrente, vmc_calls, radiant_calls, raised,
                    arguments, returned >>

AwaitEntityEvents ==
    Events(vmc_home_windows_state, {"on", "off"})
        \cup Events(vmc_power_entity_id, {STATE_ON, STATE_OFF})
        \cup Events(vmc_t_setpoint_entity_id, {"18.5", "22.5"})
        \cup Events(vmc_h_setpoint_entity_id, {"50.0", "61.0"})
        \cup Events(vmc_vent_recirculation_id, {STATE_ON})

NextAwait ==
    \/ \E event \in AwaitEntityEvents : loop_entity_changed(event[1], event[2])
    \/ loop_read_sensors
    \/ \E now \in InterlockTimes : cycle_begin(now)
    \/ cycle_temperature_setpoint
    \/ cycle_humidity_setpoint
    \/ cycle_finish

SpecAwait == InitInterlock /\ [][NextAwait]_vars

(***************************************************************************)
(* Properties.  A cycle leaves the snapshot as it found it, so a state     *)
(* with runs > 0 shows the snapshot the last cycle read together with the  *)
(* calls it made, the exception it ended with and the latch it left.       *)
(***************************************************************************)
Issues(calls, call) == \E i \in 1..Len(calls) : calls[i] = call

Targets(calls, entity_id) == \E i \in 1..Len(calls) : calls[i].entity_id = entity_id

CycleStep == runs' = runs + 1

SeasonName == hvac_season_name(get_season_from_weather(calendar_season, forecast))

WindowsClosed ==
    /\ sensor_map[vmc_home_windows_state] # NoKey
    /\ sensor_map[vmc_home_windows_state] # None
    /\ sensor_map[vmc_home_windows_state] = "on"

InterlockActive ==
    /\ StateIs(sensor_map, power_supply_adjustable_id, STATE_ON)
    /\ Known(sensor_map, power_supply_mixing_valve_id)
    /\ is_number(sensor_map[power_supply_mixing_valve_id])
    /\ float(sensor_map[power_supply_mixing_valve_id]) <= 600

Aggregate == async_ambient_temp_hum(config_areas, climate_sensor_map)

C2_windows_open_no_action ==
    [][(CycleStep /\ ~WindowsClosed)
          => (/\ vmc_calls' = << >>
              /\ radiant_calls' = << >>
              /\ vmc_controller_water_alarm' = vmc_controller_water_alarm)]_vars

C2_open_windows_cycle_with_latch ==
    /\ runs > 0
    /\ sensor_map[vmc_home_windows_state] = "off"
    /\ vmc_controller_water_alarm
    /\ StateIs(sensor_map, vmc_power_entity_id, STATE_ON)

\* C3 as stated: whatever entries of the snapshot are absent or not
\* numeric, a cycle ends without an exception.  (The cycles in which the
\* aggregator returns None are left to C4.)
C3_cycle_never_raises ==
    (runs > 0 /\ ~(Aggregate.raised = NoError /\ Aggregate.none)) => raised = NoError

\* C4 as stated: with the windows closed and the aggregator returning
\* None, the cycle makes no call and ends without an exception.
C4_absent_aggregate_is_noop ==
    (runs > 0 /\ WindowsClosed /\ Aggregate.raised = NoError /\ Aggregate.none)
        => (vmc_calls = << >> /\ radiant_calls = << >> /\ raised = NoError)

\* C5: in a winter cycle with the windows closed, the adjustable supply ON
\* and the blending valve numeric and at most 60, the VMC controller makes
\* no TurnOff of the VMC power and no call on the spare setpoint or on the
\* recirculation vent, whatever the local time.
C5_interlock_skips_schedule ==
    (runs > 0 /\ SeasonName = WINTER /\ WindowsClosed /\ InterlockActive)
        => (/\ ~Issues(vmc_calls, switch_turn(vmc_power_entity_id, TURN_OFF))
            /\ ~Targets(vmc_calls, vmc_spare_setpoint_id)
            /\ ~Targets(vmc_calls, vmc_vent_recirculation_id))

C5_interlock_cycle_off_hours ==
    /\ runs > 0 /\ raised = NoError /\ attr_current.set
    /\ SeasonName = WINTER /\ WindowsClosed /\ InterlockActive
    /\ sensor_map[power_supply_mixing_valve_id] = "60.0"
    /\ StateIs(sensor_map, vmc_power_entity_id, STATE_ON)
    /\ ora_corrente = time(16, 0)

\* C6: a cycle calls TurnOn on the direct supply only if the high-water
\* alarm sensor reads OFF and the latch is clear when the call is made (the
\* latch is not touched after the call, so it is clear after the cycle).
C6_direct_on_needs_alarm_off ==
    Issues(vmc_calls \o radiant_calls, switch_turn(power_supply_direct_id, TURN_ON))
        => (/\ sensor_map[vmc_high_water_temp] = STATE_OFF
            /\ ~vmc_controller_water_alarm)

C6_direct_turned_on ==
    /\ runs > 0
    /\ Issues(vmc_calls, switch_turn(power_supply_direct_id, TURN_ON))

\* C7: the latch starts clear; a step sets it only if it is a cycle with
\* the windows closed and the interlock active that reads the direct supply
\* ON and the alarm sensor ON and calls TurnOff on the direct supply; a step
\* clears it only if it is a cycle that reads a water temperature at or
\* below the VMC ambient temperature.  No event changes it.
C7_latch_set_and_cleared ==
    /\ ~vmc_controller_water_alarm
    /\ [][/\ (~vmc_controller_water_alarm /\ vmc_controller_water_alarm')
                => (/\ CycleStep
                    /\ WindowsClosed /\ InterlockActive
                    /\ sensor_map[power_supply_direct_id] = STATE_ON
                    /\ sensor_map[vmc_high_water_temp] = STATE_ON
                    /\ Issues(vmc_calls', switch_turn(power_supply_direct_id, TURN_OFF)))
          /\ (vmc_controller_water_alarm /\ ~vmc_controller_water_alarm')
                => (/\ CycleStep
                    /\ is_number(sensor_map[vmc_t_water])
                    /\ is_number(sensor_map[vmc_t_ambient])
                    /\ float(sensor_map[vmc_t_water]) <= float(sensor_map[vmc_t_ambient]))]_vars

C7_latch_set ==
    /\ runs > 0
    /\ vmc_controller_water_alarm
    /\ Issues(vmc_calls, switch_turn(power_supply_direct_id, TURN_OFF))

AggregateAvailable == Aggregate.raised = NoError /\ ~Aggregate.none

\* C8 as stated: in winter, with the windows closed, the interlock
\* inactive, the VMC ON and an aggregate reading, a cycle between 02:00 and
\* 09:00 selects mode 'Off' iff the mode differs, writes 1 to the spare
\* setpoint iff it holds another integer, and turns the recirculation vent
\* on iff it reads off; between 12:00 and 15:00 the same holds with the
\* winter code, 5 and TurnOff iff it reads on; neither makes a call on the
\* VMC power.
C8_window_programs ==
    (/\ runs > 0 /\ SeasonName = WINTER /\ WindowsClosed /\ ~InterlockActive
     /\ AggregateAvailable
     /\ StateIs(sensor_map, vmc_power_entity_id, STATE_ON))
        => /\ (time(2, 0) <= ora_corrente /\ ora_corrente < time(9, 0))
                => /\ Issues(vmc_calls, input_select_set_value(season_actuator_id, "Off"))
                        <=> (Known(sensor_map, season_actuator_id)
                                /\ sensor_map[season_actuator_id] # "Off")
                   /\ is_int(sensor_map[vmc_spare_setpoint_id])
                        => (Issues(vmc_calls, number_set_value(vmc_spare_setpoint_id, 10))
                                <=> int(sensor_map[vmc_spare_setpoint_id]) # 1)
                   /\ Issues(vmc_calls, switch_turn(vmc_vent_recirculation_id, TURN_ON))
                        <=> sensor_map[vmc_vent_recirculation_id] = "off"
                   /\ ~Targets(vmc_calls, vmc_power_entity_id)
           /\ (time(12, 0) <= ora_corrente /\ ora_corrente < time(15, 0))
                => /\ Issues(vmc_calls, input_select_set_value(season_actuator_id, vmc_season_winter))
                        <=> (Known(sensor_map, season_actuator_id)
                                /\ sensor_map[season_actuator_id] # vmc_season_winter)
                   /\ is_int(sensor_map[vmc_spare_setpoint_id])
                        => (Issues(vmc_calls, number_set_value(vmc_spare_setpoint_id, 50))
                                <=> int(sensor_map[vmc_spare_setpoint_id]) # 5)
                   /\ Issues(vmc_calls, switch_turn(vmc_vent_recirculation_id, TURN_OFF))
                        <=> sensor_map[vmc_vent_recirculation_id] = "on"
                   /\ ~Targets(vmc_calls, vmc_power_entity_id)

\* C9 as stated: in winter, with the windows closed, the VMC power reading
\* OFF and the local time inside a window, the calls of the VMC controller
\* are exactly one TurnOn of the VMC power.
C9_power_on_only ==
    (/\ runs > 0 /\ SeasonName = WINTER /\ WindowsClosed
     /\ sensor_map[vmc_power_entity_id] = STATE_OFF
     /\ \/ time(2, 0) <= ora_corrente /\ ora_corrente < time(9, 0)
        \/ time(12, 0) <= ora_corrente /\ ora_corrente < time(15, 0))
        => vmc_calls = << switch_turn(vmc_power_entity_id, TURN_ON) >>

\* The last known state of the entity a call targets: the hub's snapshot,
\* or hass.states for a zone valve.
LastKnown(entity_id) ==
    IF entity_id \in HubEntities THEN sensor_map[entity_id] ELSE hass_states[entity_id]

Redundant(call) ==
    \/ call.service = TURN_ON /\ LastKnown(call.entity_id) = STATE_ON
    \/ call.service = TURN_OFF /\ LastKnown(call.entity_id) = STATE_OFF
    \/ /\ call.service = "set_value"
       /\ is_number(LastKnown(call.entity_id))
       /\ float(LastKnown(call.entity_id)) = call.value
    \/ call.service = "select_option" /\ LastKnown(call.entity_id) = call.option

\* C10 as stated: no call of a cycle commands the state or value its target
\* is last known to have.
C10_no_redundant_call ==
    \A i \in 1..Len(vmc_calls \o radiant_calls) : ~Redundant((vmc_calls \o radiant_calls)[i])

(***************************************************************************)
(* The radiant controller's winter handler, as the state after a cycle     *)
(* shows it.                                                               *)
(***************************************************************************)
\* What the VMC controller of the last cycle ended with (the latch does not
\* bear on it).
VmcOutcome ==
    async_vmc_mode_auto(sensor_map, climate_sensor_map, vmc_controller_water_alarm,
        SeasonName, get_confort_zone(get_season_from_weather(calendar_season, forecast)),
        confort_setpoint_power_off, ora_corrente)

\* The last cycle reached _async_radiant_mode_auto_season_winter.
RadiantWinterEntered ==
    /\ runs > 0 /\ attr_hvac_mode = HVAC_AUTO /\ SeasonName = WINTER
    /\ WindowsClosed /\ AggregateAvailable
    /\ VmcOutcome.raised = NoError

RadiantDeviceOn ==
    /\ sensor_map[radiant_fm_power_id] = STATE_ON
    /\ sensor_map[radiant_device_power_id] = STATE_ON

RadiantZones == { i \in 1..Len(config_areas) : config_areas[i].indoor /\ config_areas[i].radiant }

ValveOf(i) == config_areas[i].thermal_collector_valve_switch

\* C11 as stated: in the winter handler with the radiant unit ON and the
\* heat index above the power-off setpoint, the cycle calls TurnOff on the
\* adjustable supply if it reads ON, on the radiant power switch (it reads
\* ON), and on every zone valve that is ON; it calls TurnOn on no valve and
\* writes nothing to the mixing valve.
C11_power_down_closes_every_valve ==
    (RadiantWinterEntered /\ RadiantDeviceOn
        /\ Aggregate.t_avg_h_index > confort_setpoint_power_off)
        => /\ sensor_map[power_supply_adjustable_id] = STATE_ON
                => Issues(radiant_calls, switch_turn(power_supply_adjustable_id, TURN_OFF))
           /\ Issues(radiant_calls, switch_turn(radiant_device_power_id, TURN_OFF))
           /\ \A i \in RadiantZones :
                 /\ hass_states[ValveOf(i)] = STATE_ON
                       => Issues(radiant_calls, switch_turn(ValveOf(i), TURN_OFF))
                 /\ ~Issues(radiant_calls, switch_turn(ValveOf(i), TURN_ON))
           /\ ~Targets(radiant_calls, power_supply_mixing_valve_id)

\* C12 as stated: a cycle that reaches the winter handler past 22:00 calls
\* TurnOff on the radiant power switch, whichever branch it takes, unless
\* the switch is known to be off.
C12_shut_off_after_22 ==
    (RadiantWinterEntered /\ ora_corrente > time(22, 0))
        => \/ sensor_map[radiant_device_power_id] = STATE_OFF
           \/ Issues(radiant_calls, switch_turn(radiant_device_power_id, TURN_OFF))

(***************************************************************************)
(* The distributor, as the state after a cycle shows it.                   *)
(***************************************************************************)
\* The last cycle called _async_radiant_thermal_collector_mode_auto.
DistributorRan ==
    /\ RadiantWinterEntered /\ RadiantDeviceOn
    /\ Aggregate.t_avg_h_index <= confort_setpoint_power_off

\* The zones that take part: indoor and radiant, both sensors in the hub's
\* snapshot with a numeric room temperature, and a valve in hass.states.
ParticipatingZones ==
    { i \in RadiantZones :
        /\ Known(sensor_map, config_areas[i].temperature)
        /\ Known(sensor_map, config_areas[i].humidity)
        /\ is_number(sensor_map[config_areas[i].temperature])
        /\ hass_states[ValveOf(i)] # None }

RoomTemp(i) == float(sensor_map[config_areas[i].temperature])

\* C13 as stated: for each participating zone the distributor calls TurnOff
\* on the valve iff the room is above the power-off setpoint and the valve
\* is ON; calls TurnOn iff the room is not above it, the valve is OFF and
\* the room is at or below the power-on setpoint or the recorder counts no
\* ON observation in the last 120 minutes; and makes no other call on it.
C13_zone_rule ==
    DistributorRan
        => \A i \in ParticipatingZones :
              /\ Issues(radiant_calls, switch_turn(ValveOf(i), TURN_OFF))
                    <=> (RoomTemp(i) > confort_setpoint_power_off
                            /\ hass_states[ValveOf(i)] = STATE_ON)
              /\ Issues(radiant_calls, switch_turn(ValveOf(i), TURN_ON))
                    <=> (/\ RoomTemp(i) <= confort_setpoint_power_off
                         /\ hass_states[ValveOf(i)] = STATE_OFF
                         /\ \/ RoomTemp(i) <= confort_setpoint_power_on
                            \/ recorder[ValveOf(i)].count = 0)

\* The number of calls in a sequence that are the given call.
Count(calls, call) == Cardinality({ k \in 1..Len(calls) : calls[k] = call })

\* C14 as stated: in a distributor pass a participating zone above the
\* power-off setpoint is called TurnOff exactly once if its valve is ON, and
\* gets no call at all if its valve is OFF.
C14_turn_off_exactly_once ==
    DistributorRan
        => \A i \in ParticipatingZones :
              RoomTemp(i) > confort_setpoint_power_off
                  => IF hass_states[ValveOf(i)] = STATE_ON
                     THEN /\ Count(radiant_calls, switch_turn(ValveOf(i), TURN_OFF)) = 1
                          /\ ~Issues(radiant_calls, switch_turn(ValveOf(i), TURN_ON))
                     ELSE ~Targets(radiant_calls, ValveOf(i))

\* What the distributor of the last cycle returned.
DistributorReturn ==
    async_radiant_thermal_collector_mode_auto(sensor_map, hass_states, recorder,
        confort_setpoint_power_on, confort_setpoint_power_off)

RECURSIVE AreaOf(_)
AreaOf(zones) ==
    IF zones = {} THEN 0
    ELSE LET i == CHOOSE z \in zones : TRUE
         IN  config_areas[i].mq + AreaOf(zones \ {i})

\* The zones the distributor counts as open: both sensors in the snapshot,
\* a valve in hass.states, and the valve ON.
OpenZones ==
    { i \in RadiantZones :
        /\ sensor_map[config_areas[i].temperature] # NoKey
        /\ sensor_map[config_areas[i].humidity] # NoKey
        /\ hass_states[ValveOf(i)] = STATE_ON }

\* max(50, round((1 - (total - opened)/total) * 100)) in tenths of a percent,
\* the total padded by 4 when not all of it is open.
PercentOf(total_area, opened_area) ==
    LET padded == IF total_area # opened_area THEN total_area + 4 ELSE total_area
        percent == round(100 * opened_area, padded)
    IN  10 * (IF percent > 50 THEN percent ELSE 50)

\* C15 as stated: whatever the valve states and the sensors present, the
\* distributor returns max(50, round((1 - (total - opened)/total) * 100))
\* over the padded total; the value is defined, lies between 50 and 100 and
\* does not decrease when more area is open.
C15_adjust_valve_percent ==
    /\ DistributorRan
          => /\ DistributorReturn.raised = NoError
             /\ DistributorReturn.adjust_valve_percent
                    = PercentOf(AreaOf(RadiantZones), AreaOf(OpenZones))
             /\ 500 <= DistributorReturn.adjust_valve_percent
             /\ DistributorReturn.adjust_valve_percent <= 1000
    /\ \A a, b \in SUBSET RadiantZones :
          AreaOf(a) <= AreaOf(b)
              => PercentOf(AreaOf(RadiantZones), AreaOf(a))
                     <= PercentOf(AreaOf(RadiantZones), AreaOf(b))

\* C16 as stated: when the recorder query for a zone valve fails, the
\* distributor takes the count as 0 (a valve that is OFF in a room not above
\* the power-off setpoint is turned ON), goes on with the remaining zones
\* and the cycle ends without an exception.
C16_query_failure_counts_as_zero ==
    (DistributorRan /\ \E i \in RadiantZones : ~recorder[ValveOf(i)].ok)
        => /\ raised = NoError
           /\ \A i \in ParticipatingZones :
                 (/\ ~recorder[ValveOf(i)].ok
                  /\ hass_states[ValveOf(i)] = STATE_OFF
                  /\ RoomTemp(i) <= confort_setpoint_power_off)
                     => Issues(radiant_calls, switch_turn(ValveOf(i), TURN_ON))

(***************************************************************************)
(* The Ambient Aggregator called directly.                                 *)
(***************************************************************************)
AggregatorCalled == arguments # << >> /\ arguments[1] = "async_ambient_temp_hum"

QualifyingAreas(areas) == { i \in 1..Len(areas) : areas[i].indoor /\ areas[i].radiant }

MissingAreas(areas, sm) ==
    { i \in QualifyingAreas(areas) :
        sm[areas[i].temperature] = NoKey \/ sm[areas[i].humidity] = NoKey }

\* C17 as stated: the aggregator counts the areas flagged indoor and
\* radiant, counts one as missing when its temperature or humidity is not
\* in the snapshot, and returns a reading iff round(qualifying / 3) is at
\* least the number missing, None otherwise.
C17_reading_iff_tolerated ==
    AggregatorCalled
        => /\ returned.raised = NoError
           /\ ~returned.none
                 <=> round(Cardinality(QualifyingAreas(arguments[2])), 3)
                        >= Cardinality(MissingAreas(arguments[2], arguments[3]))

(***************************************************************************)
(* The calendar function called directly.                                  *)
(***************************************************************************)
SeasonByDateCalled == arguments # << >> /\ arguments[1] = "get_season_by_date"

\* The intervals whose test of the date succeeds.
IntervalsContaining(today) ==
    { k \in 1..Len(SEASONS_BY_DATE) :
        season_interval(k, today).raised = NoError /\ season_interval(k, today).contains }

\* C18 as stated: for every date get_season_by_date returns without an
\* error, the season it returns is the one of the only interval that
\* contains the date, and an interval whose end is before its start has its
\* end in the following year.
C18_calendar_partitions_year ==
    SeasonByDateCalled
        => /\ returned.raised = NoError
           /\ ~returned.none
           /\ Cardinality(IntervalsContaining(arguments[2])) = 1
           /\ \A k \in IntervalsContaining(arguments[2]) :
                 returned.label = SEASONS_BY_DATE[k].label

(***************************************************************************)
(* The season estimate (SpecSeason).                                       *)
(***************************************************************************)
SeasonFromWeatherCalled ==
    arguments # << >> /\ arguments[1] = "get_season_from_weather"

\* C19: when no forecast is available, the estimate's overridden label is
\* the calendar label and weather_anomaly is false, get_confort_zone gives
\* the calendar season's comfort zone, the attributes of the climate entity
\* are readable and a control cycle reaches its controllers.
C19_no_forecast_keeps_calendar_season ==
    /\ (SeasonFromWeatherCalled /\ arguments[3] = << >>)
           => /\ returned.overridden = arguments[2]
              /\ returned.weather_anomaly = "False"
              /\ get_confort_zone(returned) = arguments[2]
    /\ (arguments # << >> /\ arguments[1] = "extra_state_attributes" /\ arguments[3] = << >>)
           => returned.raised = NoError
    /\ (runs > 0 /\ forecast = << >>) => raised # "TypeError"

\* The score of one forecast day, as a pair << numerator, denominator >>:
\* (1 - 0.1*i) / (1 + |min - mid| + |max - mid|), in tenths of a degree with
\* mid = (lo + hi) / 2.
DayScore(i, day, lo, hi) ==
    << (10 - i) * 2,
       20 + (IF 2 * day.min >= lo + hi THEN 2 * day.min - (lo + hi)
                                        ELSE (lo + hi) - 2 * day.min)
          + (IF 2 * day.max >= lo + hi THEN 2 * day.max - (lo + hi)
                                        ELSE (lo + hi) - 2 * day.max) >>

SumScore(x, y) == << x[1] * y[2] + y[1] * x[2], x[2] * y[2] >>

RECURSIVE AggregateScore(_, _, _)
AggregateScore(days, season, n) ==
    IF n = 0 THEN << 0, 1 >>
    ELSE SumScore(AggregateScore(days, season, n - 1),
                  DayScore(n - 1, days[n],
                           CONFORT_ZONES[season].temp_min - CONFORT_ZONES[season].delta_temp,
                           CONFORT_ZONES[season].temp_max + CONFORT_ZONES[season].delta_temp))

\* a/b >= c/d for naturals a, c and positive b, d, by comparing the whole
\* parts and then the inverted remainders.
RECURSIVE AtLeast(_, _, _, _)
AtLeast(a, b, c, d) ==
    IF a \div b # c \div d THEN a \div b > c \div d
    ELSE IF c % d = 0 THEN TRUE
    ELSE IF a % b = 0 THEN FALSE
    ELSE AtLeast(d, c % d, b, a % b)

ScoreAtLeast(x, y) == AtLeast(x[1], x[2], y[1], y[2])

WeightedAverageCalled == arguments # << >> /\ arguments[1] = "weighted_average"

RECURSIVE WeightSum(_, _)
WeightSum(weights, n) == IF n = 0 THEN 0 ELSE WeightSum(weights, n - 1) + weights[n]

RECURSIVE WeightedSum(_, _, _)
WeightedSum(values, weights, n) ==
    IF n = 0 THEN 0 ELSE WeightedSum(values, weights, n - 1) + values[n] * weights[n]

\* C23: weighted_average(values, weights) is sum(value*weight)/sum(weight)
\* for lists of equal length whose weights do not sum to zero (15 for
\* [10, 20] and [1, 1]), fails with the length-mismatch error (ValueError)
\* when the lengths differ, and fails with ZeroDivisionError when the
\* weights sum to zero, empty lists included.
C23_weighted_average ==
    WeightedAverageCalled
        => IF Len(arguments[2]) # Len(arguments[3])
           THEN returned.raised = "ValueError"
           ELSE IF WeightSum(arguments[3], Len(arguments[3])) = 0
           THEN returned.raised = "ZeroDivisionError"
           ELSE /\ returned.raised = NoError
                /\ returned.den > 0
                /\ returned.num * WeightSum(arguments[3], Len(arguments[3]))
                      = WeightedSum(arguments[2], arguments[3], Len(arguments[2])) * returned.den
                /\ (arguments[2] = << 10, 20 >> /\ arguments[3] = << 1, 1 >>)
                      => returned.num = 15 * returned.den

\* Unequal weights were applied: [10, 20] with [1, 3] gives 17.5.
C23_witness_weighted ==
    /\ WeightedAverageCalled
    /\ arguments[2] = << 10, 20 >> /\ arguments[3] = << 1, 3 >>
    /\ returned.raised = NoError
    /\ 2 * returned.num = 35 * returned.den

(***************************************************************************)
(* The dew point (SpecDewPoint).                                           *)
(***************************************************************************)
DewPointCalled == arguments # << >> /\ arguments[1] = "calculate_dew_point"

HumidityInRange(humidity) == 0 < humidity /\ humidity <= 1000

\* C24 as stated: with the relative humidity out of range the dew point is
\* absent, a result no valid input gives; the reading's dew point and the
\* perception computed from it are skipped (None), and nothing is raised.
C24_domain_error_yields_absent ==
    (DewPointCalled /\ ~HumidityInRange(arguments[3]))
        => /\ returned.raised = NoError
           /\ returned.none
           /\ returned.perception = None
           /\ \A i \in 1..Len(DewPoints) : \A j \in 1..Len(DewPoints[i]) :
                 returned.none \/ DewPoints[i][j] # returned.t_avg_dew_point

(***************************************************************************)
(* The season of a cycle and the setpoints (SpecSetpoints).                *)
(***************************************************************************)
Estimate == get_season_from_weather(calendar_season, forecast)

\* The estimate names a season other than the calendar's.
LabelsDiffer == Estimate.overridden \in Seasons /\ Estimate.overridden # calendar_season

OverriddenZone == CONFORT_ZONES[Estimate.overridden]

SetpointWrites(calls, entity_id) ==
    { calls[i].value : i \in { j \in 1..Len(calls) : calls[j].entity_id = entity_id } }

WritesJustified(entity_id, target) ==
    \A value \in SetpointWrites(vmc_calls, entity_id) :
        /\ value = target
        /\ Known(sensor_map, entity_id)
        /\ is_number(sensor_map[entity_id])
        /\ float(sensor_map[entity_id]) # target

\* The last cycle wrote a VMC setpoint.
SetpointWritten ==
    \/ Targets(vmc_calls, vmc_t_setpoint_entity_id)
    \/ Targets(vmc_calls, vmc_h_setpoint_entity_id)

\* The setpoint writes of the last cycle, with the temperature target
\* computed from the active zone by mean_coefficient * mean(temp_min,
\* temp_max) + max_coefficient * temp_max + delta_coefficient * delta_temp.
SetpointWritesAsStated(mean_coefficient, max_coefficient, delta_coefficient) ==
    (runs > 0 /\ SetpointWritten)
        => /\ SeasonName = WINTER /\ Estimate.overridden \in Seasons
           /\ WindowsClosed
           /\ StateIs(sensor_map, vmc_power_entity_id, STATE_ON)
           /\ WritesJustified(vmc_t_setpoint_entity_id,
                  mean_coefficient * ((OverriddenZone.temp_min + OverriddenZone.temp_max) \div 2)
                      + max_coefficient * OverriddenZone.temp_max
                      + delta_coefficient * OverriddenZone.delta_temp)
           /\ WritesJustified(vmc_h_setpoint_entity_id,
                  OverriddenZone.hum_max + OverriddenZone.delta_hum)

OneEntryChanged(before, after) ==
    \E entity_id \in DOMAIN before : after = [before EXCEPT ![entity_id] = after[entity_id]]

DerivedEntries(current) == << current.set, current.temperature, current.humidity >>

VmcOn == StateIs(sensor_map, vmc_power_entity_id, STATE_ON)

\* Every call of calls that is in first comes before every call on one of
\* the entities.
AllBefore(calls, first, entities) ==
    \A i, j \in 1..Len(calls) :
        (calls[i] \in first /\ calls[j].entity_id \in entities) => i < j

\* The entities the time-window schedule commands.
ScheduleEntities ==
    { vmc_power_entity_id, season_actuator_id, vmc_spare_setpoint_id, vmc_vent_recirculation_id }

OutsideTimeWindows(now) ==
    /\ ~(time(2, 0) <= now /\ now < time(9, 0))
    /\ ~(time(12, 0) <= now /\ now < time(15, 0))

\* C28 as stated: in a winter cycle with the windows closed and the
\* interlock condition holding, the VMC controller's only call is TurnOn of
\* the VMC power if the VMC is not ON; if it is ON the controller selects
\* mode 'Off' iff the mode is known and differs, turns force-heating on iff
\* it reads OFF, and makes both calls before any call on the direct supply.
C28_interlock_branch ==
    (runs > 0 /\ SeasonName = WINTER /\ WindowsClosed /\ InterlockActive)
        => IF ~VmcOn
           THEN vmc_calls = << switch_turn(vmc_power_entity_id, TURN_ON) >>
           ELSE /\ Issues(vmc_calls, input_select_set_value(season_actuator_id, "Off"))
                     <=> (Known(sensor_map, season_actuator_id)
                             /\ sensor_map[season_actuator_id] # "Off")
                /\ Issues(vmc_calls, switch_turn(vmc_force_heating_id, TURN_ON))
                     <=> sensor_map[vmc_force_heating_id] = STATE_OFF
                /\ AllBefore(vmc_calls,
                             { input_select_set_value(season_actuator_id, "Off"),
                               switch_turn(vmc_force_heating_id, TURN_ON) },
                             { power_supply_direct_id })

\* C29 as stated: in a winter cycle with the windows closed, the interlock
\* condition not holding and the VMC ON, the VMC controller turns
\* force-heating off if it reads ON and the direct supply off if it reads
\* ON, both before any call of the time-window schedule, and the cycle
\* leaves the latch as it was.
C29_retraction_before_schedule ==
    [][(CycleStep /\ SeasonName = WINTER /\ WindowsClosed /\ ~InterlockActive /\ VmcOn)
          => /\ sensor_map[vmc_force_heating_id] = STATE_ON
                   => Issues(vmc_calls', switch_turn(vmc_force_heating_id, TURN_OFF))
             /\ sensor_map[power_supply_direct_id] = STATE_ON
                   => Issues(vmc_calls', switch_turn(power_supply_direct_id, TURN_OFF))
             /\ AllBefore(vmc_calls',
                          { switch_turn(vmc_force_heating_id, TURN_OFF),
                            switch_turn(power_supply_direct_id, TURN_OFF) },
                          ScheduleEntities)
             /\ vmc_controller_water_alarm' = vmc_controller_water_alarm
      ]_vars

\* C30 as stated: in a winter cycle with the windows closed and the
\* interlock condition not holding, at a time outside 02:00-09:00 and
\* 12:00-15:00, the VMC controller, if the VMC is ON, turns the
\* recirculation vent off when it reads on and then turns the VMC power
\* off, the vent before the power; if the VMC is not ON it makes no call.
C30_off_hours_power_down ==
    (/\ runs > 0 /\ SeasonName = WINTER /\ WindowsClosed /\ ~InterlockActive
     /\ OutsideTimeWindows(ora_corrente))
        => IF VmcOn
           THEN /\ sensor_map[vmc_vent_recirculation_id] = "on"
                     => Issues(vmc_calls, switch_turn(vmc_vent_recirculation_id, TURN_OFF))
                /\ Issues(vmc_calls, switch_turn(vmc_power_entity_id, TURN_OFF))
                /\ AllBefore(vmc_calls, { switch_turn(vmc_vent_recirculation_id, TURN_OFF) },
                             { vmc_power_entity_id })
           ELSE vmc_calls = << >>

(***************************************************************************)
(* SpecCalendar: the process running across season boundaries.  The def    *)
(* statement of get_season_by_date evaluates its default, date.today(),    *)
(* once, when climate_core is imported; get_season_from_weather calls it   *)
(* without an argument in every cycle.  arguments holds the default bound  *)
(* at import; returned holds the day the clock shows, the date the last    *)
(* call worked on and what it gave.                                        *)
(***************************************************************************)
ImportDates == { date(2024, m, dd) : m \in 1..12, dd \in {1, 15} }

\* The day after d.
tomorrow(d) ==
    IF d.day < days_in_month(d.year, d.month) THEN date(d.year, d.month, d.day + 1)
    ELSE IF d.month < 12 THEN date(d.year, d.month + 1, 1)
    ELSE date(d.year + 1, 1, 1)

\* import climate_core on the day today: the default of data is bound.
module_imported(today) ==
    /\ arguments = << >>
    /\ arguments' = << "data", today >>
    /\ returned' = [today |-> today, called |-> FALSE, data |-> today,
                    current_season |-> NoSeason]
    /\ UNCHANGED hub_vars

\* Midnight passes while the process runs, up to the end of the year of the
\* import.
day_passes ==
    /\ arguments # << >>
    /\ returned.today.year = arguments[2].year
    /\ returned' = [returned EXCEPT !.today = tomorrow(@), !.called = FALSE]
    /\ UNCHANGED << arguments, hub_vars >>

\* Line 565 in a cycle: self.get_season_by_date(), data taking its default.
cycle_get_season_by_date ==
    /\ arguments # << >>
    /\ returned' = [returned EXCEPT !.called = TRUE, !.data = arguments[2],
                                    !.current_season = get_season_by_date(arguments[2])]
    /\ UNCHANGED << arguments, hub_vars >>

InitCalendar == Constructed({ColdForecast}, {WINTER}, {STATE_OFF}, {None}, {RecorderSeen})

NextCalendar ==
    \/ \E today \in ImportDates : module_imported(today)
    \/ day_passes
    \/ cycle_get_season_by_date

SpecCalendar == InitCalendar /\ [][NextCalendar]_vars

(***************************************************************************)
(* SpecMaps: the two sensor maps.  A state change of a zone sensor is      *)
(* delivered to both listeners, the hub's _async_entity_changed and the    *)
(* climate entity's _async_sensor_changed; the start event seeds the       *)
(* climate entity's map only.                                              *)
(***************************************************************************)
\* One state_changed event of a zone sensor: hass.states holds the new
\* state and both listeners store it.
zone_sensor_changed(entity_id, new_state) ==
    /\ hass_states[entity_id] # new_state
    /\ hass_states' = [hass_states EXCEPT ![entity_id] = new_state]
    /\ sensor_map' = [sensor_map EXCEPT ![entity_id] = new_state]
    /\ climate_sensor_map' = [climate_sensor_map EXCEPT ![entity_id] = new_state]
    /\ Forgotten
    /\ UNCHANGED << attr_current, attr_hvac_mode, started, recorder,
                    forecast, calendar_season, vmc_controller_water_alarm,
                    confort_setpoint_power_on, confort_setpoint_power_off,
                    arguments, returned >>

MapsSensorEvents ==
    Events(config_areas[1].temperature, {"18.0", "20.0"})
        \cup Events(config_areas[1].humidity, {"50.0", "61.0"})
        \cup Events(config_areas[2].temperature, {"18.0", "20.0"})
        \cup Events(config_areas[2].humidity, {"50.0", "61.0"})

MapsEntityEvents ==
    Events(vmc_home_windows_state, {"on"})
        \cup Events(radiant_fm_power_id, {STATE_ON})
        \cup Events(radiant_device_power_id, {STATE_ON})

InitMaps ==
    /\ Constructed({ColdForecast}, {WINTER}, {STATE_OFF}, {"20.0", "50.0"}, {RecorderIdle})
    /\ \A i \in 1..Len(config_areas) :
          /\ hass_states[config_areas[i].temperature] = "20.0"
          /\ hass_states[config_areas[i].humidity] = "50.0"

NextMaps ==
    \/ \E event \in MapsSensorEvents : zone_sensor_changed(event[1], event[2])
    \/ \E event \in MapsEntityEvents : EntityChanged(event[1], event[2])
    \/ async_read_sensors
    \/ \E now \in DistributorTimes : async_update(now)

SpecMaps == InitMaps /\ [][NextMaps]_vars

(***************************************************************************)
(* SpecTolerance: the aggregator on configurations with zero to four       *)
(* qualifying zones (the radiant flag of each area is optional in          *)
(* AREAS_SCHEMA), each zone's sensors in the snapshot or not.              *)
(***************************************************************************)
ToleranceAreas ==
    { [i \in 1..Len(AggregatorAreas) |-> [AggregatorAreas[i] EXCEPT !.radiant = flags[i]]] :
        flags \in [1..Len(AggregatorAreas) -> BOOLEAN] }

ToleranceSnapshots ==
    { [e \in AggregatorTemperatures \cup AggregatorHumidities |->
          IF e \in AggregatorTemperatures THEN temps[e] ELSE hums[e]] :
      temps \in [AggregatorTemperatures -> {NoKey, "20.0"}],
      hums \in [AggregatorHumidities -> {NoKey, "50.0"}] }

NextTolerance ==
    \E areas \in ToleranceAreas, sm \in ToleranceSnapshots :
        call_async_ambient_temp_hum(areas, sm)

SpecTolerance == InitAggregator /\ [][NextTolerance]_vars

(***************************************************************************)
(* SpecLatch: the water-alarm latch under cycles that keep running.  The   *)
(* environment of SpecInterlock with the windows closed, and the first     *)
(* zone's temperature sensor reporting 20.0 or 'unavailable' to the        *)
(* climate entity.  Home Assistant polls the climate entity at every scan  *)
(* interval, so a cycle that stays possible is eventually run: weak        *)
(* fairness of the step that counts a cycle, which only async_update       *)
(* takes.                                                                  *)
(***************************************************************************)
LatchEntityEvents ==
    Events(vmc_home_windows_state, {"on"})
        \cup Events(vmc_power_entity_id, {STATE_ON})
        \cup Events(power_supply_adjustable_id, {STATE_ON})
        \cup Events(power_supply_mixing_valve_id, {"60.0"})
        \cup Events(power_supply_direct_id, {STATE_ON, STATE_OFF})
        \cup Events(vmc_high_water_temp, {STATE_ON, STATE_OFF})
        \cup Events(vmc_t_water, {"20.0", "26.0"})
        \cup Events(vmc_t_ambient, {"24.0"})

LatchSensorEvents == Events(config_areas[1].temperature, {"20.0", UNAVAILABLE})

LatchTimes == { time(16, 0) }

NextLatch ==
    \/ \E event \in LatchEntityEvents : EntityChanged(event[1], event[2])
    \/ \E event \in LatchSensorEvents : SensorChanged(event[1], event[2])
    \/ async_read_sensors
    \/ \E now \in LatchTimes : async_update(now)

SpecLatch ==
    /\ InitInterlock
    /\ [][NextLatch]_vars
    /\ WF_runs(runs < MaxRuns /\ CycleStep)

(***************************************************************************)
(* SpecStub: the seasons other than winter.  The calendar label is any of  *)
(* the four and the forecast turns cold or warm between cycles; the events *)
(* are those that let a winter cycle set the water-alarm latch and store   *)
(* the setpoints, and that would make both controllers act in winter.      *)
(***************************************************************************)
StubEntityEvents ==
    Events(vmc_home_windows_state, {"on"})
        \cup Events(vmc_power_entity_id, {STATE_ON})
        \cup Events(vmc_t_setpoint_entity_id, {"18.5"})
        \cup Events(power_supply_adjustable_id, {STATE_ON})
        \cup Events(power_supply_mixing_valve_id, {"60.0"})
        \cup Events(power_supply_direct_id, {STATE_ON})
        \cup Events(vmc_high_water_temp, {STATE_ON})
        \cup Events(radiant_fm_power_id, {STATE_ON})
        \cup Events(radiant_device_power_id, {STATE_ON})

StubForecasts == { ColdForecast, WarmForecast }

StubTimes == { time(3, 0), time(22, 30) }

InitStub ==
    /\ Constructed(StubForecasts, Seasons, {STATE_OFF}, {"20.0", "50.0"}, {RecorderSeen})
    /\ \A i \in 1..Len(config_areas) :
          /\ hass_states[config_areas[i].temperature] = "20.0"
          /\ hass_states[config_areas[i].humidity] = "50.0"

NextStub ==
    \/ \E temperatures \in StubForecasts : WeatherChanged(temperatures)
    \/ \E event \in StubEntityEvents : EntityChanged(event[1], event[2])
    \/ async_read_sensors
    \/ \E now \in StubTimes : async_update(now)

SpecStub == InitStub /\ [][NextStub]_vars

(***************************************************************************)
(* The power-up and the device-off branch of the radiant winter handler    *)
(* (SpecPowerUp).                                                          *)
(***************************************************************************)
\* The boiler readings allow the adjustable supply: both present and
\* numeric, supply above 27 and return above 25.5.
BoilerWarm ==
    /\ Known(sensor_map, radiant_boiler_temp_system_supply)
    /\ Known(sensor_map, radiant_boiler_temp_system_return)
    /\ is_number(sensor_map[radiant_boiler_temp_system_supply])
    /\ is_number(sensor_map[radiant_boiler_temp_system_return])
    /\ float(sensor_map[radiant_boiler_temp_system_supply]) > 270
    /\ float(sensor_map[radiant_boiler_temp_system_return]) > 255

\* The percentage of the open zone area.
OpenPercent == PercentOf(AreaOf(RadiantZones), AreaOf(OpenZones))

\* C31 as stated: in the winter handler with the radiant unit ON and the
\* heat index at or below the power-off setpoint, the cycle calls TurnOn on
\* the adjustable supply iff the boiler readings allow it and the supply
\* has a reading other than ON, and writes the blending valve iff its
\* reading is numeric and differs from the percentage of the open zone
\* area, with that percentage.
C31_power_up_supply_and_blending ==
    DistributorRan
        => /\ Issues(radiant_calls, switch_turn(power_supply_adjustable_id, TURN_ON))
                <=> (/\ BoilerWarm
                     /\ Known(sensor_map, power_supply_adjustable_id)
                     /\ sensor_map[power_supply_adjustable_id] # STATE_ON)
           /\ Issues(radiant_calls, number_set_value(power_supply_mixing_valve_id, OpenPercent))
                <=> (/\ Known(sensor_map, power_supply_mixing_valve_id)
                     /\ is_number(sensor_map[power_supply_mixing_valve_id])
                     /\ float(sensor_map[power_supply_mixing_valve_id]) # OpenPercent)

\* The device-off branch drains down: the adjustable supply reads ON and the
\* boiler return is present, numeric and below 25.5.
DrainDown ==
    /\ sensor_map[power_supply_adjustable_id] = STATE_ON
    /\ Known(sensor_map, radiant_boiler_temp_system_return)
    /\ is_number(sensor_map[radiant_boiler_temp_system_return])
    /\ float(sensor_map[radiant_boiler_temp_system_return]) < 255

C32_witness_return_at_threshold ==
    /\ RadiantWinterEntered /\ ~RadiantDeviceOn
    /\ sensor_map[power_supply_adjustable_id] = STATE_ON
    /\ sensor_map[radiant_boiler_temp_system_return] = "25.5"
    /\ radiant_calls = << >>

(***************************************************************************)
(* The seasons other than winter (SpecStub).                               *)
(***************************************************************************)
\* C33: a cycle whose season is spring, summer or autumn makes no service
\* call from the VMC or the radiant controller and leaves the water-alarm
\* latch and the two stored setpoints as they were.
C33_stub_seasons_issue_nothing ==
    [][(CycleStep /\ SeasonName \in {SPRING, SUMMER, AUTUMN})
          => /\ vmc_calls' = << >>
             /\ radiant_calls' = << >>
             /\ vmc_controller_water_alarm' = vmc_controller_water_alarm
             /\ confort_setpoint_power_on' = confort_setpoint_power_on
             /\ confort_setpoint_power_off' = confort_setpoint_power_off]_vars

\* A cycle past 22:00 in a season other than winter, with the latch set and
\* the setpoints stored by an earlier winter cycle, windows closed, an
\* aggregate reading, the VMC and the radiant unit ON and the interlock
\* holding.
C33_witness_stub_cycle_with_latch ==
    /\ runs > 0 /\ ora_corrente = time(22, 30)
    /\ SeasonName \in {SPRING, SUMMER, AUTUMN}
    /\ vmc_controller_water_alarm
    /\ confort_setpoint_power_off = 225
    /\ WindowsClosed /\ AggregateAvailable /\ InterlockActive
    /\ RadiantDeviceOn /\ VmcOn
    /\ sensor_map[vmc_t_setpoint_entity_id] = "18.5"
    /\ raised = NoError

(***************************************************************************)
(* The calendar label across season boundaries (SpecCalendar).             *)
(***************************************************************************)
MonthDay(d) == d.month * 100 + d.day

\* The season of const.SEASONS_BY_DATE whose days of the year contain d.
CalendarLabels(d) ==
    { SEASONS_BY_DATE[k].label : k \in { j \in 1..Len(SEASONS_BY_DATE) :
        IF MonthDay(SEASONS_BY_DATE[j].start) <= MonthDay(SEASONS_BY_DATE[j].end)
        THEN MonthDay(SEASONS_BY_DATE[j].start) <= MonthDay(d)
                 /\ MonthDay(d) <= MonthDay(SEASONS_BY_DATE[j].end)
        ELSE MonthDay(SEASONS_BY_DATE[j].start) <= MonthDay(d)
                 \/ MonthDay(d) <= MonthDay(SEASONS_BY_DATE[j].end) } }

\* The calendar label a cycle works with is that of the day it runs on.
CycleUsesToday == IF arguments = << >> THEN TRUE
                  ELSE returned.called => returned.data = returned.today

\* C34 as stated: every cycle computes the calendar label from the date on
\* which it runs, so the first cycle after a season boundary reports the
\* new season.
C34_label_of_the_day_of_the_cycle ==
    IF arguments = << >> THEN TRUE
    ELSE /\ CycleUsesToday
         /\ returned.called
               => /\ returned.current_season.raised = NoError
                  /\ CalendarLabels(returned.today) = {returned.current_season.label}

(***************************************************************************)
(* The zones the distributor leaves out (SpecDistributor).                 *)
(***************************************************************************)
\* A radiant zone with a sensor missing from the hub's snapshot or with no
\* valve in hass.states.
SkippedZones ==
    { i \in RadiantZones :
        \/ sensor_map[config_areas[i].temperature] = NoKey
        \/ sensor_map[config_areas[i].humidity] = NoKey
        \/ hass_states[ValveOf(i)] = None }

\* C35 as stated: a distributor pass calls only the valves of indoor radiant
\* zones that have a valve and both sensors present; a zone without a valve
\* or with a sensor missing gets no call and adds nothing to the open area;
\* the pass applies the zone rule to every other zone and returns a
\* percentage.
C35_skipped_zones_do_not_stop_the_pass ==
    DistributorRan
        => /\ \A k \in 1..Len(radiant_calls) :
                 radiant_calls[k].entity_id \in Valves
                     => \E i \in RadiantZones \ SkippedZones :
                           radiant_calls[k].entity_id = ValveOf(i)
           /\ DistributorReturn.raised = NoError
           /\ DistributorReturn.adjust_valve_percent
                  = PercentOf(AreaOf(RadiantZones), AreaOf(OpenZones \ SkippedZones))
           /\ \A i \in ParticipatingZones :
                 /\ Issues(radiant_calls, switch_turn(ValveOf(i), TURN_OFF))
                       <=> (RoomTemp(i) > confort_setpoint_power_off
                               /\ hass_states[ValveOf(i)] = STATE_ON)
                 /\ Issues(radiant_calls, switch_turn(ValveOf(i), TURN_ON))
                       <=> (/\ RoomTemp(i) <= confort_setpoint_power_off
                            /\ hass_states[ValveOf(i)] = STATE_OFF
                            /\ \/ RoomTemp(i) <= confort_setpoint_power_on
                               \/ recorder[ValveOf(i)].count = 0)

(***************************************************************************)
(* The calls of one cycle taken together.                                  *)
(***************************************************************************)
\* The calls of the last cycle, the VMC controller's first.
CycleCalls == vmc_calls \o radiant_calls

\* C36 as stated: in one cycle no entity is the target of more than one
\* call, so none is sent both TurnOn and TurnOff and none the same command
\* twice.
C36_one_call_per_entity ==
    \A j, k \in 1..Len(CycleCalls) :
        CycleCalls[j].entity_id = CycleCalls[k].entity_id => j = k

\* The valves of all configured areas that the last cycle called TurnOn on.
ValvesTurnedOn ==
    { i \in 1..Len(config_areas) : Issues(CycleCalls, switch_turn(ValveOf(i), TURN_ON)) }

\* C37: no cycle calls TurnOn on the valve of a zone whose room temperature
\* is above the power-off setpoint, and a cycle whose aggregate heat index
\* is above the power-off setpoint, or in which the radiant unit does not
\* read ON, calls TurnOn on no valve.
C37_no_valve_opened_when_warm ==
    runs > 0
        => /\ \A i \in ValvesTurnedOn :
                 /\ Known(sensor_map, config_areas[i].temperature)
                 /\ is_number(sensor_map[config_areas[i].temperature])
                 /\ RoomTemp(i) <= confort_setpoint_power_off
           /\ ((AggregateAvailable /\ Aggregate.t_avg_h_index > confort_setpoint_power_off)
                  \/ ~RadiantDeviceOn)
                 => ValvesTurnedOn = {}

\* A pass that leaves closed the valve of a room above the power-off
\* setpoint that the recorder has not seen ON for 120 minutes.
C37_witness_warm_room_left_closed ==
    /\ DistributorRan /\ raised = NoError
    /\ ValvesTurnedOn = {}
    /\ \E i \in ParticipatingZones :
          /\ RoomTemp(i) > confort_setpoint_power_off
          /\ hass_states[ValveOf(i)] = STATE_OFF
          /\ recorder[ValveOf(i)].count = 0

(***************************************************************************)
(* The two sensor maps (SpecMaps).                                         *)
(***************************************************************************)
\* The zone has both sensors in the map.
HasData(map, i) ==
    map[config_areas[i].temperature] # NoKey /\ map[config_areas[i].humidity] # NoKey

\* C38 as stated: at every cycle the map the climate entity passes to the
\* aggregator and the hub's map hold the same entry, or none, for every
\* zone sensor, and a zone that has data for the aggregator has data for
\* the distributor.
C38_maps_agree_on_zone_sensors ==
    runs > 0
        => /\ \A e \in AreaSensors : climate_sensor_map[e] = sensor_map[e]
           /\ \A i \in RadiantZones :
                 HasData(climate_sensor_map, i) => HasData(sensor_map, i)

(***************************************************************************)
(* The tolerance policy and the weighted mean (SpecTolerance).             *)
(***************************************************************************)
\* The call passes the tolerance test of line 633.
Tolerated ==
    round(Cardinality(QualifyingAreas(arguments[2])), 3)
        >= Cardinality(MissingAreas(arguments[2], arguments[3]))

\* C39 as stated: whenever the tolerance test lets the aggregator go on, at
\* least one zone has contributed, the weighted mean is defined and a
\* reading is returned, for any number of qualifying and missing zones.
C39_tolerated_means_a_zone_contributed ==
    (AggregatorCalled /\ Tolerated)
        => /\ QualifyingAreas(arguments[2]) \ MissingAreas(arguments[2], arguments[3]) # {}
           /\ returned.raised = NoError
           /\ ~returned.none

(***************************************************************************)
(* The latch under cycles that keep running (SpecLatch).                   *)
(***************************************************************************)
\* The cause of the alarm is gone: winter, windows closed, the interlock
\* holding, the VMC ON, the direct supply reading OFF, the water no warmer
\* than the VMC ambient and the alarm sensor OFF.
CauseGone ==
    /\ attr_hvac_mode = HVAC_AUTO /\ SeasonName = WINTER
    /\ WindowsClosed /\ InterlockActive /\ VmcOn
    /\ sensor_map[power_supply_direct_id] = STATE_OFF
    /\ Known(sensor_map, vmc_t_water) /\ is_number(sensor_map[vmc_t_water])
    /\ Known(sensor_map, vmc_t_ambient) /\ is_number(sensor_map[vmc_t_ambient])
    /\ float(sensor_map[vmc_t_water]) <= float(sensor_map[vmc_t_ambient])
    /\ sensor_map[vmc_high_water_temp] = STATE_OFF

\* C40 as stated: once the latch is set and the cause is gone, cycles that
\* keep running lead, unless the conditions change, to a cycle that has
\* cleared the latch and called TurnOn on the direct supply.
C40_latch_cleared_once_cause_gone ==
    (vmc_controller_water_alarm /\ CauseGone)
        ~> (\/ ~CauseGone
            \/ /\ ~vmc_controller_water_alarm
               /\ Issues(vmc_calls, switch_turn(power_supply_direct_id, TURN_ON)))

\* C40 read on the step: a cycle that finds the latch set and the cause
\* gone clears the latch and calls TurnOn on the direct supply.
C40_next_cycle_clears ==
    [][(CycleStep /\ vmc_controller_water_alarm /\ CauseGone)
          => (/\ ~vmc_controller_water_alarm'
              /\ Issues(vmc_calls', switch_turn(power_supply_direct_id, TURN_ON)))]_vars

====
